---- MODULE Spec2Model ----
(***************************************************************************)
(* A model of the response-parsing core of entsoe-py:                      *)
(*   src/entsoe/series_parsers.py  (resolution table, datetime index       *)
(*                                  builder, generic timeseries parser)    *)
(*   src/entsoe/entsoe.py          (EntsoePandasClient query methods)      *)
(*                                                                         *)
(* Instants are integers: minutes since 2022-01-01T00:00Z.  A time zone is *)
(* a label on an instant; converting between zones never moves it.         *)
(* The parsing functions are stateless: each operation is modelled as a    *)
(* call (pc = "idle" -> "done", with its arguments in args and its outcome *)
(* in ret) followed by the return to the caller.                           *)
(***************************************************************************)
EXTENDS Integers, Sequences, FiniteSets, TLC

VARIABLES
    RESOLUTIONS,   \* the module-level resolution table of series_parsers.py
    pc,            \* "idle" | "done"
    args,          \* the arguments of the call in progress
    ret            \* its outcome: a result or the exception raised

vars == <<RESOLUTIONS, pc, args, ret>>

\* ------------------------------------------------------------------ bounds

\* longest index date_range is asked to generate, in steps of the resolution
MaxLen == 3
\* most records parse_unavailabilities hands to the overlap filter
MaxRecords == 2
\* most threads that run parse calls at the same time
MaxThreads == 2

\* ---------------------------------------------------------------- calendar

\* Day number of the first day of each month, January 2022 .. January 2026.
MonthStartDay ==
    <<0, 31, 59, 90, 120, 151, 181, 212, 243, 273, 304, 334,
      365, 396, 424, 455, 485, 516, 546, 577, 608, 638, 669, 699,
      730, 761, 790, 821, 851, 882, 912, 943, 974, 1004, 1035, 1065,
      1096, 1127, 1155, 1186, 1216, 1247, 1277, 1308, 1339, 1369, 1400, 1430,
      1461>>

\* pd.Timestamp("<y>-<mo>-<d>T<h>:<mi>Z") as minutes since the epoch
TS(y, mo, d, h, mi) ==
    ((MonthStartDay[(y - 2022) * 12 + mo] + d - 1) * 1440) + (h * 60) + mi

\* index (1 = January 2022) of the month a wall-clock time falls in
MonthOf(w) ==
    CHOOSE m \in 1..48 :
        MonthStartDay[m] <= w \div 1440 /\ w \div 1440 < MonthStartDay[m + 1]

\* Timestamp.day
DayOfMonth(w) == (w \div 1440) - MonthStartDay[MonthOf(w)] + 1

\* Timestamp.hour
Hour(w) == (w % 1440) \div 60

\* The zone "Europe/Brussels": UTC+1, and UTC+2 from the last Sunday of March
\* 01:00Z to the last Sunday of October 01:00Z.
DstPeriods ==
    { <<TS(2022, 3, 27, 1, 0), TS(2022, 10, 30, 1, 0)>>,
      <<TS(2023, 3, 26, 1, 0), TS(2023, 10, 29, 1, 0)>>,
      <<TS(2024, 3, 31, 1, 0), TS(2024, 10, 27, 1, 0)>>,
      <<TS(2025, 3, 30, 1, 0), TS(2025, 10, 26, 1, 0)>> }

\* d.dst() of an instant shown in zone tz, in minutes
dst(tz, u) ==
    IF tz = "Europe/Brussels" /\ \E p \in DstPeriods : p[1] <= u /\ u < p[2]
    THEN 60 ELSE 0

\* d.utcoffset()
utcoffset(tz, u) == IF tz = "Europe/Brussels" THEN 60 + dst(tz, u) ELSE 0

\* the wall-clock reading of instant u in zone tz: Timestamp.tz_localize(None)
Wall(tz, u) == u + utcoffset(tz, u)

\* the instants whose wall-clock reading in tz is w
Instants(tz, w) == { u \in {w, w - 60, w - 120} : Wall(tz, u) = w }

\* Timestamp.tz_localize(tz) with ambiguous='raise', nonexistent='raise'
tz_localize(tz, w) ==
    LET us == Instants(tz, w) IN
    IF Cardinality(us) = 1 THEN [ok |-> TRUE, t |-> CHOOSE u \in us : TRUE]
    ELSE IF us = {} THEN [ok |-> FALSE, exc |-> "NonExistentTimeError"]
    ELSE [ok |-> FALSE, exc |-> "AmbiguousTimeError"]

\* --------------------------------------------------------- resolution table

ResolutionTable ==
    ("PT60M" :> "60min") @@ ("P1Y" :> "12MS") @@ ("PT15M" :> "15min") @@
    ("PT30M" :> "30min") @@ ("P1D" :> "1D") @@ ("P7D" :> "7D") @@
    ("P1M" :> "1MS") @@ ("PT1M" :> "1min") @@ ("PT4S" :> "4D 4h")

\* the resolution codes a document may carry: the nine of the table and one
\* that the table does not know
ResolutionCodes == DOMAIN ResolutionTable \cup {"PT5M"}

\* _resolution_to_timedelta that falls back to the hourly step when the code
\* is absent
resolution_to_timedelta_default(res_text) ==
    IF res_text \in DOMAIN RESOLUTIONS
    THEN [ok |-> TRUE, delta |-> RESOLUTIONS[res_text]]
    ELSE [ok |-> TRUE, delta |-> "60min"]

\* _resolution_to_timedelta: RESOLUTIONS.get(res_text), an error when absent
resolution_to_timedelta(res_text) ==
    IF res_text \in DOMAIN RESOLUTIONS
    THEN [ok |-> TRUE, delta |-> RESOLUTIONS[res_text]]
    ELSE [ok |-> FALSE, exc |-> "NotImplementedError"]

\* pandas' to_offset(freq): a fixed number of minutes (Tick), a number of
\* calendar days (Day) or a number of month starts (MonthBegin)
to_offset(freq) ==
    CASE freq = "60min" -> [kind |-> "tick",  n |-> 60]
      [] freq = "15min" -> [kind |-> "tick",  n |-> 15]
      [] freq = "30min" -> [kind |-> "tick",  n |-> 30]
      [] freq = "1min"  -> [kind |-> "tick",  n |-> 1]
      [] freq = "4D 4h" -> [kind |-> "tick",  n |-> 6000]
      [] freq = "1D"    -> [kind |-> "day",   n |-> 1]
      [] freq = "7D"    -> [kind |-> "day",   n |-> 7]
      [] freq = "1MS"   -> [kind |-> "month", n |-> 1]
      [] freq = "12MS"  -> [kind |-> "month", n |-> 12]

\* --------------------------------------------------------------- date_range

RECURSIVE generate_regular_range(_, _, _)
\* start, start + stride, ... up to and including end
generate_regular_range(start, end, stride) ==
    IF start > end THEN <<>>
    ELSE <<start>> \o generate_regular_range(start + stride, end, stride)

\* MonthBegin(n) added to a wall-clock time: the first day of the n-th next
\* month, the time of day kept
MonthBegin_apply(w, n) ==
    (MonthStartDay[MonthOf(w) + n] * 1440) + (w % 1440)

\* MonthBegin.rollforward: a time not on the first of a month moves to the
\* first of the next month
MonthBegin_rollforward(w) ==
    IF DayOfMonth(w) = 1 THEN w ELSE MonthBegin_apply(w, 1)

\* the instant of a wall-clock time on the first of a month (never within a
\* transition of the zone, which falls on a last Sunday)
MonthStartInstant(tz, w) == CHOOSE u \in Instants(tz, w) : TRUE

RECURSIVE generate_month_range(_, _, _, _)
\* pandas' _generate_range for MonthBegin(n): cur, cur + n months, ... while
\* the instant is not after end
generate_month_range(tz, cur, end, n) ==
    IF MonthStartInstant(tz, cur) > end THEN <<>>
    ELSE <<MonthStartInstant(tz, cur)>>
         \o generate_month_range(tz, MonthBegin_apply(cur, n), end, n)

\* the localisation of a sequence of wall-clock times, failing on the first
\* ambiguous or non-existent one
LocalizeAll(tz, ws) ==
    LET bad == { i \in 1..Len(ws) : ~tz_localize(tz, ws[i]).ok } IN
    IF bad = {}
    THEN [ok |-> TRUE, index |-> [i \in 1..Len(ws) |-> tz_localize(tz, ws[i]).t]]
    ELSE [ok |-> FALSE,
          exc |-> tz_localize(tz, ws[CHOOSE i \in bad : \A j \in bad : i <= j]).exc]

\* inclusive='left' removes a last element equal to end, 'both' removes nothing
ApplyInclusive(index, end, inclusive) ==
    IF inclusive = "left" /\ Len(index) > 0 /\ index[Len(index)] = end
    THEN SubSeq(index, 1, Len(index) - 1)
    ELSE index

\* pd.date_range(start, end, freq, inclusive) for instants start and end shown
\* in zone tz.  A Tick steps through instants.  Day steps through wall-clock
\* days (the zone is stripped, the range generated, and the result localised
\* again, which fails on an ambiguous or non-existent wall-clock time).
\* MonthBegin steps through the first days of the months of the zone.
date_range(start, end, freq, tz, inclusive) ==
    LET off == to_offset(freq) IN
    CASE off.kind = "tick" ->
           [ok |-> TRUE,
            index |-> ApplyInclusive(
                generate_regular_range(start, end, off.n), end, inclusive)]
      [] off.kind = "day" ->
           LET ws  == generate_regular_range(
                          Wall(tz, start), Wall(tz, end), off.n * 1440)
               loc == LocalizeAll(tz, ws \o <<Wall(tz, start), Wall(tz, end)>>)
           IN  IF loc.ok
               THEN [ok |-> TRUE,
                     index |-> ApplyInclusive(
                         SubSeq(loc.index, 1, Len(ws)), end, inclusive)]
               ELSE loc
      [] off.kind = "month" ->
           [ok |-> TRUE,
            index |-> ApplyInclusive(
                generate_month_range(
                    tz, MonthBegin_rollforward(Wall(tz, start)), end, off.n),
                end, inclusive)]

\* ------------------------------------------------- datetime index builder

\* diff_min_ge_1D with a strict comparison
diff_min_gt_1D(index) ==
    /\ Len(index) >= 2
    /\ \A i \in 1..(Len(index) - 1) : index[i + 1] - index[i] > 1440

\* index.to_series().diff().min() >= pd.Timedelta('1D'): the smallest gap
\* between neighbours is a day or more; with fewer than two elements the
\* minimum is NaT and the comparison is False
diff_min_ge_1D(index) ==
    /\ Len(index) >= 2
    /\ \A i \in 1..(Len(index) - 1) : index[i + 1] - index[i] >= 1440

\* len(set(index.map(lambda d: d.dst()))) > 1
dst_jump(tz, index) ==
    Cardinality({ dst(tz, index[i]) : i \in 1..Len(index) }) > 1

\* the condition of the tz branch under which index[:-1] is taken
tz_drop(tz, index, delta) == dst_jump(tz, index) /\ delta = "7D"

\* the condition of the elif branch (no tz) under which index[:-1] is taken
naive_drop(index, start, end) ==
    diff_min_ge_1D(index) /\ Hour(end) = Hour(start) + 1

\* index[:-1]
DropLast(index) ==
    IF Len(index) = 0 THEN index ELSE SubSeq(index, 1, Len(index) - 1)

\* _parse_datetimeindex(soup, tz) for a period with the given start, end and
\* resolution texts; tz = "None" when no zone is passed.  gen records the
\* index date_range returned, before any correction.
parse_datetimeindex(start, end, res_text, tz) ==
    LET zone == IF tz = "None" THEN "UTC" ELSE tz
        res  == resolution_to_timedelta(res_text)
    IN
    IF ~res.ok THEN res
    ELSE
      LET dr == date_range(start, end, res.delta, zone, "left") IN
      IF ~dr.ok THEN dr
      ELSE
        LET drop == IF tz # "None"
                    THEN tz_drop(zone, dr.index, res.delta)
                    ELSE naive_drop(dr.index, start, end)
        IN [ok |-> TRUE,
            gen |-> dr.index,
            index |-> IF drop THEN DropLast(dr.index) ELSE dr.index]

\* ------------------------------------------------ generic timeseries parser

\* A point's text is a sequence of characters.  A cell of a series holds a
\* text (before the cast), a float (after it) or NaN; a float m / 10^d is the
\* pair <<m, d>> with no trailing zero decimal.
TextCell(text) == [kind |-> "text", text |-> text, num |-> <<0, 0>>]
FloatCell(num) == [kind |-> "float", text |-> <<>>, num |-> num]
NaN == [kind |-> "nan", text |-> <<>>, num |-> <<0, 0>>]

\* value.replace(',', '') that leaves the text as it is
strip_commas_noop(text) == text

\* value.replace(',', '')
strip_commas(text) ==
    LET keep(c) == c # "," IN SelectSeq(text, keep)

DigitValue ==
    ("0" :> 0) @@ ("1" :> 1) @@ ("2" :> 2) @@ ("3" :> 3) @@ ("4" :> 4) @@
    ("5" :> 5) @@ ("6" :> 6) @@ ("7" :> 7) @@ ("8" :> 8) @@ ("9" :> 9)

\* float(text) succeeds: digits with at most one decimal point (the texts of
\* the model carry no sign, exponent or blank)
is_float_text(text) ==
    /\ \A i \in 1..Len(text) : text[i] \in (DOMAIN DigitValue) \cup {"."}
    /\ Cardinality({ i \in 1..Len(text) : text[i] = "." }) <= 1
    /\ \E i \in 1..Len(text) : text[i] \in DOMAIN DigitValue

RECURSIVE digits_value(_)
digits_value(ds) ==
    IF ds = <<>> THEN 0
    ELSE (digits_value(SubSeq(ds, 1, Len(ds) - 1)) * 10) + DigitValue[ds[Len(ds)]]

RECURSIVE reduce_float(_, _)
reduce_float(m, d) ==
    IF d > 0 /\ m % 10 = 0 THEN reduce_float(m \div 10, d - 1) ELSE <<m, d>>

\* float(text) of a text float() accepts
to_float(text) ==
    LET dots == { i \in 1..Len(text) : text[i] = "." }
        d    == IF dots = {} THEN 0 ELSE Len(text) - (CHOOSE i \in dots : TRUE)
        digit(c) == c # "."
    IN reduce_float(digits_value(SelectSeq(text, digit)), d)

\* pd.Timedelta(delta_text) as <<minutes, milliseconds>>: the string parser
\* reads the unit case-insensitively, so "MS" is the millisecond
Timedelta(delta_text) ==
    CASE delta_text = "60min" -> <<60, 0>>
      [] delta_text = "15min" -> <<15, 0>>
      [] delta_text = "30min" -> <<30, 0>>
      [] delta_text = "1min"  -> <<1, 0>>
      [] delta_text = "1D"    -> <<1440, 0>>
      [] delta_text = "7D"    -> <<10080, 0>>
      [] delta_text = "4D 4h" -> <<6000, 0>>
      [] delta_text = "1MS"   -> <<0, 1>>
      [] delta_text = "12MS"  -> <<0, 12>>

\* start + (position - 1) * delta: a timestamp <<minute, millisecond>>
point_key(start, delta, position) ==
    LET ms == (position - 1) * delta[2] IN
    <<start + ((position - 1) * delta[1]) + (ms \div 60000), ms % 60000>>

TsLess(a, b) == a[1] < b[1] \/ (a[1] = b[1] /\ a[2] < b[2])

\* the dict data after the loop over the points: the value of a key is the
\* comma-stripped text of the last point stored under it
period_data(start, delta, points) ==
    LET key(i) == point_key(start, delta, points[i].position)
        last(k) == CHOOSE i \in 1..Len(points) :
                       /\ key(i) = k
                       /\ \A j \in 1..Len(points) : key(j) = k => j <= i
    IN [k \in { key(i) : i \in 1..Len(points) } |->
           strip_commas(points[last(k)].text)]

\* single_zero that never holds
single_zero_never(data) == FALSE

\* len(data) == 1 and list(data.values())[0] == '0'
single_zero(data) ==
    /\ Cardinality(DOMAIN data) = 1
    /\ \A k \in DOMAIN data : data[k] = <<"0">>

RECURSIVE sorted_keys(_)
\* the keys in ascending order
sorted_keys(K) ==
    IF K = {} THEN <<>>
    ELSE LET m == CHOOSE x \in K : \A y \in K : x = y \/ TsLess(x, y)
         IN <<m>> \o sorted_keys(K \ {m})

\* pd.Series(data).sort_index()
series_of(data) ==
    LET ks == sorted_keys(DOMAIN data) IN
    [i \in 1..Len(ks) |-> [ts |-> ks[i], value |-> TextCell(data[ks[i]])]]

\* end - delta, rounded down to the minute (every element date_range
\* generates from a whole minute is a whole minute)
end_minus_delta(end, delta) ==
    IF delta[2] = 0 THEN end - delta[1] ELSE end - delta[1] - 1

\* S.reindex(idx): one row per element of idx, holding the value stored at
\* that timestamp, else NaN
reindex(data, idx) ==
    [i \in 1..Len(idx) |->
        [ts |-> <<idx[i], 0>>,
         value |-> IF <<idx[i], 0>> \in DOMAIN data
                   THEN TextCell(data[<<idx[i], 0>>]) ELSE NaN]]

\* ffill that also fills the rows before the first value, from that value
ffill_bfill(S) ==
    [i \in 1..Len(S) |->
        [ts |-> S[i].ts,
         value |-> LET src == { j \in 1..i : S[j].value.kind # "nan" }
                       any == { j \in 1..Len(S) : S[j].value.kind # "nan" }
                   IN
                   IF src # {} THEN S[CHOOSE x \in src : \A y \in src : y <= x].value
                   ELSE IF any # {}
                   THEN S[CHOOSE x \in any : \A y \in any : x <= y].value
                   ELSE NaN]]

\* S.ffill(): a NaN row takes the value of the nearest earlier row that has
\* one, and stays NaN when there is none
ffill(S) ==
    [i \in 1..Len(S) |->
        [ts |-> S[i].ts,
         value |-> LET src == { j \in 1..i : S[j].value.kind # "nan" } IN
                   IF src = {} THEN NaN
                   ELSE S[CHOOSE x \in src : \A y \in src : y <= x].value]]

\* S.reindex(pd.date_range(start, end - delta, freq=delta_text)).ffill()
reindex_ffill(data, start, end, delta_text) ==
    ffill(reindex(data,
                  date_range(start, end_minus_delta(end, Timedelta(delta_text)),
                             delta_text, "UTC", "both").index))

\* aux_columns with a column for every requested attribute
aux_columns_all(doc, opts) ==
    [c \in { c \in {"classification_sequence", "direction",
                     "contract_marketagreement_type"} : opts.add[c] } |->
        doc.tags[c].text]

\* the columns added to a fragment: one for every requested attribute whose
\* tag is in the document and has a text
aux_columns(doc, opts) ==
    LET want == { c \in {"classification_sequence", "direction",
                         "contract_marketagreement_type"} :
                  /\ opts.add[c]
                  /\ doc.tags[c].present
                  /\ doc.tags[c].text # "" }
    IN [c \in want |-> doc.tags[c].text]

\* any of add_classification_sequence, add_direction, add_contract
as_table(opts) == \E c \in DOMAIN opts.add : opts.add[c]

\* the fragment appended to series[delta_text]: the series S with the
\* columns of the requested attributes
fragment(delta_text, S, cols) ==
    [ok |-> TRUE, skip |-> FALSE, freq |-> delta_text,
     rows |-> [i \in 1..Len(S) |->
                  [ts |-> S[i].ts, value |-> S[i].value, cols |-> cols]]]

\* the body of the loop over the periods once data is filled: the period is
\* skipped, or its series is built according to the curve type
period_series(doc, opts, period, delta_text, data) ==
    IF single_zero(data) THEN [ok |-> TRUE, skip |-> TRUE]
    ELSE IF ~doc.curvetype.present
    THEN [ok |-> FALSE, exc |-> "AttributeError"]
    ELSE fragment(delta_text,
                  IF doc.curvetype.text = "A03"
                  THEN reindex_ffill(data, period.start, period.end, delta_text)
                  ELSE series_of(data),
                  aux_columns(doc, opts))

\* the body of the loop over the periods for one period: an error, a period
\* that is skipped, or the fragment appended to series[delta_text]
parse_period(doc, opts, period) ==
    LET res == resolution_to_timedelta(period.resolution) IN
    IF ~res.ok THEN res
    ELSE period_series(doc, opts, period, res.delta,
                       period_data(period.start, Timedelta(res.delta),
                                   period.points))

\* series[delta_text].append(S), unless the period was skipped
append_fragment(acc, r) ==
    IF r.skip THEN acc ELSE Append(acc, [freq |-> r.freq, rows |-> r.rows])

RECURSIVE parse_periods(_, _, _, _)
\* the loop after the body has run for the i-th period with outcome r: the
\* error leaves the loop, anything else goes on with the next period
next_period(doc, opts, i, acc, r) ==
    IF ~r.ok THEN r
    ELSE parse_periods(doc, opts, i + 1, append_fragment(acc, r))

\* the loop over the periods from the i-th on: the first error, or the
\* fragments appended, in document order
parse_periods(doc, opts, i, acc) ==
    IF i > Len(doc.periods) THEN [ok |-> TRUE, fragments |-> acc]
    ELSE next_period(doc, opts, i, acc, parse_period(doc, opts, doc.periods[i]))

RECURSIVE concat_rows_unique(_)
\* pd.concat of fragments that keeps, of the rows of a timestamp, those of the
\* first fragment that has it
concat_rows_unique(fragments) ==
    IF fragments = <<>> THEN <<>>
    ELSE LET n    == Len(fragments)
             init == concat_rows_unique(SubSeq(fragments, 1, n - 1))
             new(r) == \A k \in 1..Len(init) : init[k].ts # r.ts
         IN init \o SelectSeq(fragments[n].rows, new)

RECURSIVE concat_rows(_)
\* pd.concat of fragments: their rows, one fragment after the other
concat_rows(fragments) ==
    IF fragments = <<>> THEN <<>>
    ELSE fragments[1].rows \o concat_rows(Tail(fragments))

RECURSIVE insert_row(_, _)
\* a row put into a sorted sequence after the rows that are not later
insert_row(sorted, row) ==
    IF sorted = <<>> THEN <<row>>
    ELSE IF TsLess(row.ts, sorted[1].ts) THEN <<row>> \o sorted
    ELSE <<sorted[1]>> \o insert_row(Tail(sorted), row)

RECURSIVE sort_index(_)
\* sort_index(): the rows by ascending timestamp; rows of equal timestamp
\* stay in the order they had (which nothing here relies on)
sort_index(rows) ==
    IF rows = <<>> THEN <<>>
    ELSE insert_row(sort_index(SubSeq(rows, 1, Len(rows) - 1)), rows[Len(rows)])

\* astype(float) fails: some cell holds a text float() rejects
cast_fails(rows) ==
    \E i \in 1..Len(rows) :
        rows[i].value.kind = "text" /\ ~is_float_text(rows[i].value.text)

\* astype(float) of the value column
astype_float(rows) ==
    [i \in 1..Len(rows) |->
        [rows[i] EXCEPT !.value =
            IF rows[i].value.kind = "text"
            THEN FloatCell(to_float(rows[i].value.text)) ELSE @]]

\* the order of the keys of the dict series: RESOLUTIONS.values()
FreqOrder ==
    <<"60min", "12MS", "15min", "30min", "1D", "7D", "1MS", "1min", "4D 4h">>

Absent == [present |-> FALSE, rows |-> <<>>]

\* series[freq] before the cast: pd.concat(S).sort_index() of the fragments
\* of a frequency, or None when there is none
grouped(fragments, freq) ==
    LET of_freq(f) == f.freq = freq
        mine == SelectSeq(fragments, of_freq)
    IN
    IF mine = <<>> THEN Absent
    ELSE [present |-> TRUE, rows |-> sort_index(concat_rows(mine))]

RECURSIVE concat_first_present(_, _)
\* concat_present that stops after the first entry that is not None
concat_first_present(series, i) ==
    IF i > Len(FreqOrder) THEN <<>>
    ELSE IF series[FreqOrder[i]].present THEN series[FreqOrder[i]].rows
    ELSE concat_first_present(series, i + 1)

RECURSIVE concat_present(_, _)
\* pd.concat of the entries that are not None, in the order of the dict
concat_present(series, i) ==
    IF i > Len(FreqOrder) THEN <<>>
    ELSE (IF series[FreqOrder[i]].present THEN series[FreqOrder[i]].rows ELSE <<>>)
         \o concat_present(series, i + 1)

\* the value returned for the series of the frequencies: the one combined
\* series under merge_series (an empty DataFrame when no entry is left), else
\* the mapping itself
returned(opts, series) ==
    IF opts.merge_series
    THEN [ok |-> TRUE, merged |-> TRUE,
          table |-> as_table(opts) \/ \A f \in DOMAIN series : ~series[f].present,
          rows |-> concat_present(series, 1)]
    ELSE [ok |-> TRUE, merged |-> FALSE, table |-> as_table(opts),
          series |-> series]

\* the loop over the frequencies of the table: each entry becomes its sorted
\* concatenation cast to float or None, and the first failing cast raises
cast_series(opts, pre) ==
    IF \E f \in DOMAIN pre : cast_fails(pre[f].rows)
    THEN [ok |-> FALSE, exc |-> "ValueError"]
    ELSE returned(opts, [f \in DOMAIN pre |->
                            [pre[f] EXCEPT !.rows = astype_float(@)]])

\* what follows the loop over the periods, given its outcome
after_periods(opts, loop) ==
    IF ~loop.ok THEN loop
    ELSE cast_series(opts, [f \in { RESOLUTIONS[c] : c \in DOMAIN RESOLUTIONS } |->
                               grouped(loop.fragments, f)])

\* _parse_timeseries_generic(soup, ...): the mapping from each frequency of
\* the table to its series (or None), the combined series, or the exception
\* raised
parse_timeseries_generic(doc, opts) ==
    after_periods(opts, parse_periods(doc, opts, 1, <<>>))

\* _extract_timeseries(xml_text): nothing for an empty text, else the
\* timeseries elements of the document in document order
extract_timeseries(xml_text) ==
    IF xml_text.empty THEN <<>> ELSE xml_text.timeseries

\* series_all.append(_parse_timeseries_generic(soup, merge_series=True,
\* **kwargs)), unless that call raised
append_series(series_all, r) ==
    IF r.ok THEN [ok |-> TRUE, series_all |-> Append(series_all.series_all, r)]
    ELSE r

RECURSIVE parse_each(_, _, _, _)
\* the loop over the timeseries elements from the i-th on: the first
\* exception, or the list series_all
parse_each(soups, opts, i, series_all) ==
    IF ~series_all.ok \/ i > Len(soups) THEN series_all
    ELSE parse_each(soups, opts, i + 1,
                    append_series(series_all,
                                  parse_timeseries_generic(
                                      soups[i],
                                      [opts EXCEPT !.merge_series = TRUE])))

\* the end of _parse_timeseries_generic_whole, given the outcome of the loop:
\* series_all[-1].sort_index() (IndexError on an empty list) or
\* pd.concat(series_all).sort_index() (ValueError on an empty list)
whole_result(take_last, loop) ==
    IF ~loop.ok THEN loop
    ELSE IF loop.series_all = <<>>
    THEN [ok |-> FALSE, exc |-> IF take_last THEN "IndexError" ELSE "ValueError"]
    ELSE IF take_last
    THEN [ok |-> TRUE,
          table |-> loop.series_all[Len(loop.series_all)].table,
          rows |-> sort_index(loop.series_all[Len(loop.series_all)].rows)]
    ELSE [ok |-> TRUE,
          table |-> \E k \in 1..Len(loop.series_all) : loop.series_all[k].table,
          rows |-> sort_index(concat_rows(loop.series_all))]

\* _parse_timeseries_generic_whole(xml_text, take_last, **kwargs)
parse_timeseries_generic_whole(xml_text, take_last, opts) ==
    whole_result(take_last,
                 parse_each(extract_timeseries(xml_text), opts, 1,
                            [ok |-> TRUE, series_all |-> <<>>]))

\* -------------------------------------------------- unavailability queries

\* Timestamp.tz_convert: the same instant, shown in another zone
tz_convert(t, tz) == [utc |-> t.utc, tz |-> tz]

\* overlap_mask with the window's bounds exchanged
overlap_mask_swapped(row, start, end) ==
    (row.start.utc < start.utc) \/ (row.end.utc > end.utc)

\* the row filter (df["start"] < end) | (df["end"] > start)
overlap_mask(row, start, end) ==
    (row.start.utc < end.utc) \/ (row.end.utc > start.utc)

\* the body shared by _query_unavailability and
\* query_unavailability_transmission: both instants of every parsed record
\* are converted to the area's zone, then the rows are filtered
unavailability_frame(df, area_tz, start, end) ==
    LET conv == [i \in 1..Len(df) |->
                    [df[i] EXCEPT !.start = tz_convert(df[i].start, area_tz),
                                  !.end   = tz_convert(df[i].end, area_tz)]]
        keep(row) == overlap_mask(row, start, end)
    IN SelectSeq(conv, keep)

\* query_withdrawn_unavailability_of_generation_units: the result of
\* query_unavailability_of_generation_units, filtered once more
withdrawn_frame(df, area_tz, start, end) ==
    LET inner == unavailability_frame(df, area_tz, start, end)
        keep(row) == overlap_mask(row, start, end)
    IN SelectSeq(inner, keep)

\* ------------------------------------------------------------ call protocol

Idle ==
    /\ RESOLUTIONS = ResolutionTable
    /\ pc = "idle"
    /\ args = [op |-> "none"]
    /\ ret = [op |-> "none"]

\* the call returns to its caller; nothing is kept between calls
Return ==
    /\ pc = "done"
    /\ pc' = "idle"
    /\ args' = [op |-> "none"]
    /\ ret' = [op |-> "none"]
    /\ UNCHANGED RESOLUTIONS

\* ------------------------------------- specification: unavailability queries

\* the days D0 .. D4 between which request windows and outage records lie
UnavailDays == { TS(2023, 1, d, 0, 0) : d \in 1..5 }

\* the records parse_unavailabilities may produce: an outage from start to
\* end (start not after end) with a document status
UnavailRecords ==
    { [start |-> [utc |-> s, tz |-> "UTC"], end |-> [utc |-> e, tz |-> "UTC"],
       docstatus |-> a] :
      s \in UnavailDays, e \in UnavailDays, a \in {"A05", "A13"} } 

ParsedRecords == { r \in UnavailRecords : r.start.utc <= r.end.utc }

RECURSIVE SeqsUpTo(_, _)
\* the sequences over S of length at most n
SeqsUpTo(S, n) ==
    IF n = 0 THEN {<<>>}
    ELSE SeqsUpTo(S, n - 1)
         \cup { Append(q, x) : q \in { r \in SeqsUpTo(S, n - 1) : Len(r) = n - 1 },
                               x \in S }

ParsedFrames == SeqsUpTo(ParsedRecords, MaxRecords)

\* the request windows: start before end, given in the caller's zone
Windows ==
    { [start |-> [utc |-> s, tz |-> "Europe/Brussels"],
       end   |-> [utc |-> e, tz |-> "Europe/Brussels"]] :
      s \in UnavailDays, e \in UnavailDays } 

RequestWindows == { w \in Windows : w.start.utc < w.end.utc }

UnavailOps ==
    { "_query_unavailability", "query_unavailability_transmission",
      "query_withdrawn_unavailability_of_generation_units" }

\* EntsoePandasClient._query_unavailability
QueryUnavailability ==
    /\ pc = "idle"
    /\ \E w \in RequestWindows, df \in ParsedFrames :
         /\ args' = [op |-> "_query_unavailability", start |-> w.start,
                     end |-> w.end, parsed |-> df]
         /\ ret' = [ok |-> TRUE,
                    df |-> unavailability_frame(
                               df, "Europe/Brussels", w.start, w.end)]
    /\ pc' = "done"
    /\ UNCHANGED RESOLUTIONS

\* EntsoePandasClient.query_unavailability_transmission
QueryUnavailabilityTransmission ==
    /\ pc = "idle"
    /\ \E w \in RequestWindows, df \in ParsedFrames :
         /\ args' = [op |-> "query_unavailability_transmission",
                     start |-> w.start, end |-> w.end, parsed |-> df]
         /\ ret' = [ok |-> TRUE,
                    df |-> unavailability_frame(
                               df, "Europe/Brussels", w.start, w.end)]
    /\ pc' = "done"
    /\ UNCHANGED RESOLUTIONS

\* EntsoePandasClient.query_withdrawn_unavailability_of_generation_units
QueryWithdrawnUnavailability ==
    /\ pc = "idle"
    /\ \E w \in RequestWindows, df \in ParsedFrames :
         /\ args' = [op |-> "query_withdrawn_unavailability_of_generation_units",
                     start |-> w.start, end |-> w.end, parsed |-> df]
         /\ ret' = [ok |-> TRUE,
                    df |-> withdrawn_frame(
                               df, "Europe/Brussels", w.start, w.end)]
    /\ pc' = "done"
    /\ UNCHANGED RESOLUTIONS

\* the raw query raises (the server reports no matching data): nothing is
\* parsed or filtered
QueryUnavailabilityRaises ==
    /\ pc = "idle"
    /\ \E w \in RequestWindows, op \in UnavailOps :
         args' = [op |-> op, start |-> w.start, end |-> w.end, parsed |-> <<>>]
    /\ ret' = [ok |-> FALSE, exc |-> "NoMatchingDataError"]
    /\ pc' = "done"
    /\ UNCHANGED RESOLUTIONS

NextUnavail ==
    \/ QueryUnavailability
    \/ QueryUnavailabilityTransmission
    \/ QueryWithdrawnUnavailability
    \/ QueryUnavailabilityRaises
    \/ Return

SpecUnavail == Idle /\ [][NextUnavail]_vars

\* an unavailability query has returned a frame
UnavailDone == pc = "done" /\ args.op \in UnavailOps /\ ret.ok

\* the open-interval overlap of a record with the request window
Overlaps(row, start, end) ==
    row.start.utc < end.utc /\ row.end.utc > start.utc

\* what a row is, whatever zone its instants are shown in
RowKey(row) ==
    [start |-> row.start.utc, end |-> row.end.utc, docstatus |-> row.docstatus]

\* how many rows of df are the record k
RowCount(df, k) == Cardinality({ i \in 1..Len(df) : RowKey(df[i]) = k })

\* C1 (as claimed): after the overlap filter every record of the result
\* starts before the window's end AND ends after the window's start.
C1_ResultOverlapsWindow ==
    UnavailDone =>
        \A i \in 1..Len(ret.df) : Overlaps(ret.df[i], args.start, args.end)

\* C2: every parsed record that overlaps the window is retained, and the
\* filter only removes rows: each row of the result is a parsed record with
\* the same instants and the same attributes, as often as it was parsed.
C2_OverlappingRetained ==
    UnavailDone =>
        /\ \A i \in 1..Len(ret.df) :
             RowCount(ret.df, RowKey(ret.df[i]))
                 <= RowCount(args.parsed, RowKey(ret.df[i]))
        /\ \A i \in 1..Len(args.parsed) :
             Overlaps(args.parsed[i], args.start, args.end) =>
                 RowCount(ret.df, RowKey(args.parsed[i]))
                     = RowCount(args.parsed, RowKey(args.parsed[i]))

\* C2 witness: a query returned with a parsed record that overlaps the window
\* next to one that does not
C2_Witness ==
    /\ UnavailDone
    /\ Len(ret.df) >= 1
    /\ \E i, j \in 1..Len(args.parsed) :
         /\ Overlaps(args.parsed[i], args.start, args.end)
         /\ ~Overlaps(args.parsed[j], args.start, args.end)

\* ------------------------------------ specification: datetime index builder

\* the instants periods start and end at: minutes apart, local midnights of
\* Europe/Brussels around the 2023 transitions (days and Mondays), month and
\* year boundaries in UTC and in local time, and an early-morning hour
IndexInstants ==
    { TS(2023, 1, 1, 0, 0) + m : m \in {0, 1, 2, 15, 30, 45, 60, 90, 120, 6000} }
    \cup { TS(2023, 3, 12, 23, 0), TS(2023, 3, 19, 23, 0), TS(2023, 3, 24, 23, 0),
           TS(2023, 3, 25, 23, 0), TS(2023, 3, 26, 22, 0), TS(2023, 3, 27, 22, 0),
           TS(2023, 4, 2, 22, 0) }
    \cup { TS(2023, 10, 15, 22, 0), TS(2023, 10, 22, 22, 0), TS(2023, 10, 27, 22, 0),
           TS(2023, 10, 28, 0, 0), TS(2023, 10, 28, 22, 0), TS(2023, 10, 29, 23, 0),
           TS(2023, 10, 30, 0, 0), TS(2023, 10, 30, 23, 0), TS(2023, 11, 5, 23, 0) }
    \cup { TS(2022, 12, 31, 23, 0), TS(2023, 1, 31, 23, 0), TS(2023, 2, 1, 0, 0),
           TS(2023, 2, 28, 23, 0), TS(2023, 3, 1, 0, 0), TS(2023, 9, 30, 22, 0),
           TS(2023, 10, 31, 23, 0), TS(2023, 12, 31, 23, 0), TS(2024, 1, 1, 0, 0),
           TS(2025, 1, 1, 0, 0) }

\* the zones a caller passes; "None" is the default tz=None
IndexZones == {"None", "UTC", "Europe/Brussels"}

\* the shortest step of a frequency, in minutes
MinStride(freq) ==
    LET off == to_offset(freq) IN
    CASE off.kind = "tick"  -> off.n
      [] off.kind = "day"   -> off.n * 1440
      [] off.kind = "month" -> off.n * 28 * 1440

\* the period is no longer than MaxLen steps of its resolution
WithinMaxLen(start, end, res_text) ==
    res_text \in DOMAIN RESOLUTIONS =>
        end - start <= MaxLen * MinStride(RESOLUTIONS[res_text])

\* _parse_datetimeindex
ParseDatetimeIndex ==
    /\ pc = "idle"
    /\ \E start \in IndexInstants, end \in IndexInstants,
          res \in ResolutionCodes, tz \in IndexZones :
         /\ start < end
         /\ WithinMaxLen(start, end, res)
         /\ args' = [op |-> "_parse_datetimeindex", start |-> start,
                     end |-> end, resolution |-> res, tz |-> tz]
         /\ ret' = parse_datetimeindex(start, end, res, tz)
    /\ pc' = "done"
    /\ UNCHANGED RESOLUTIONS

NextIndex == ParseDatetimeIndex \/ Return

SpecIndex == Idle /\ [][NextIndex]_vars

\* _parse_datetimeindex has returned an index
IndexDone == pc = "done" /\ args.op = "_parse_datetimeindex" /\ ret.ok

\* the zone the index is generated in
IndexZone == IF args.tz = "None" THEN "UTC" ELSE args.tz

\* the final generated element was dropped
Dropped == Len(ret.index) < Len(ret.gen)

\* a wall-clock time moved by k calendar months, the day of the month kept
\* (the last day of a shorter month when there is no such day); the calendar
\* ends with December 2025, after every period's end
AddMonths(w, k) ==
    LET m   == IF MonthOf(w) + k > 48 THEN 48 ELSE MonthOf(w) + k
        len == MonthStartDay[m + 1] - MonthStartDay[m]
        d   == IF DayOfMonth(w) > len THEN len ELSE DayOfMonth(w)
    IN ((MonthStartDay[m] + d - 1) * 1440) + (w % 1440)

\* the wall-clock time k calendar steps of the frequency after w
StepWall(w, freq, k) ==
    LET off == to_offset(freq) IN
    CASE off.kind = "tick"  -> w + k * off.n
      [] off.kind = "day"   -> w + k * off.n * 1440
      [] off.kind = "month" -> AddMonths(w, k * off.n)

\* the instants start, start + step, start + 2 step, ... before end, the
\* step taken on the calendar of the zone (a Tick is a fixed duration)
StepsBefore(start, end, freq, tz) ==
    IF to_offset(freq).kind = "tick"
    THEN { start + k * to_offset(freq).n : k \in 0..(MaxLen + 2) }
             \cap 0..(end - 1)
    ELSE UNION { Instants(tz, StepWall(Wall(tz, start), freq, k)) :
                 k \in 0..(MaxLen + 2) } \cap 0..(end - 1)

\* the elements of a sequence
Range(q) == { q[i] : i \in 1..Len(q) }

Increasing(q) == \A i \in 1..(Len(q) - 1) : q[i] < q[i + 1]

SetMax(S) == CHOOSE x \in S : \A y \in S : y <= x

\* C4 (as claimed): the index is start, start + step, ... with every element
\* before end, one element for every step that starts before end, and exactly
\* one element fewer (the last) when a DST correction was applied.
C4_IndexIsHalfOpenSequence ==
    IndexDone =>
        LET E == StepsBefore(args.start, args.end,
                             RESOLUTIONS[args.resolution], IndexZone)
        IN /\ Increasing(ret.index)
           /\ Range(ret.index) = IF Dropped THEN E \ {SetMax(E)} ELSE E

\* the generated sequence passes a fall-back transition: an element in
\* summer time is followed by one in winter time
CrossesFallBack(tz, index) ==
    \E i \in 1..(Len(index) - 1) :
        dst(tz, index[i]) > 0 /\ dst(tz, index[i + 1]) = 0

\* C5 (as claimed): with a target zone, the final generated element is
\* dropped if and only if the generated sequence crosses a fall-back
\* transition and the step is exactly 7 days.
C5_DropIffFallBackWeekly ==
    (IndexDone /\ args.tz # "None") =>
        (Dropped <=> (args.resolution = "P7D" /\ CrossesFallBack(args.tz, ret.gen)))

\* the step of the period's resolution is a day or more
StepAtLeastDay(res_text) == MinStride(RESOLUTIONS[res_text]) >= 1440

\* C6 (as claimed): without a zone, the final generated element is dropped
\* if and only if the step is at least one day and the hour of end is the
\* hour of start plus one, however many elements were generated.
C6_DropIffDailySignature ==
    (IndexDone /\ args.tz = "None" /\ Len(ret.gen) >= 1) =>
        (Dropped <=> (StepAtLeastDay(args.resolution)
                      /\ Hour(args.end) = Hour(args.start) + 1))

\* C6 (amended): without a zone, the final generated element is dropped if
\* and only if at least two elements were generated, the step is at least
\* one day and the hour of end is the hour of start plus one.
C6_DropIffDailySignatureOfTwo ==
    (IndexDone /\ args.tz = "None") =>
        (Dropped <=> (/\ Len(ret.gen) >= 2
                      /\ StepAtLeastDay(args.resolution)
                      /\ Hour(args.end) = Hour(args.start) + 1))

\* C6 witness: without a zone, a daily-or-larger period with the hour
\* signature had its final element dropped
C6_Witness ==
    /\ IndexDone
    /\ args.tz = "None"
    /\ StepAtLeastDay(args.resolution)
    /\ Hour(args.end) = Hour(args.start) + 1
    /\ Dropped

\* ----------------------------------- specification: generic timeseries parser

\* most point elements of the period under study
MaxPoints == 2

\* the texts of a point's value element
PointTexts ==
    { <<"0">>, <<"2">>, <<"1", ",", "2", "3", "4", ".", "5">>, <<"N", "/", "A">> }

\* the positions a point may carry (1-based)
Positions == 1..3

Points == { [position |-> q, text |-> t] : q \in Positions, t \in PointTexts }

\* every period starts at 2022-01-01T00:00Z
PeriodStart == TS(2022, 1, 1, 0, 0)

\* the lengths of a period, in steps of its resolution
StepCounts == {2, 3}

\* the end of a period of n steps; a period with a resolution the table does
\* not know ends n times five minutes after its start
PeriodEnd(res_text, n) ==
    IF res_text \in DOMAIN ResolutionTable
    THEN StepWall(PeriodStart, ResolutionTable[res_text], n)
    ELSE PeriodStart + n * 5

\* the periods under study: every resolution code, every length,
\* with at most MaxPoints points
StudyPeriods ==
    { [start |-> PeriodStart, end |-> PeriodEnd(r, n), resolution |-> r,
       points |-> ps] :
      r \in ResolutionCodes, n \in StepCounts,
      ps \in SeqsUpTo(Points, MaxPoints) }

\* a second, hourly period of the same timeseries with two readings
HourlyPeriod ==
    [start |-> PeriodStart, end |-> PeriodStart + 120, resolution |-> "PT60M",
     points |-> << [position |-> 1, text |-> <<"2">>],
                   [position |-> 2, text |-> <<"1", ",", "2", "3", "4", ".", "5">>] >>]

PeriodLists ==
    UNION { { <<p>>, <<p, HourlyPeriod>>, <<HourlyPeriod, p>> } : p \in StudyPeriods }

NoTag == [present |-> FALSE, text |-> ""]

\* the timeseries elements: a curve type, a flow direction tag, the periods
Documents ==
    { [curvetype |-> [present |-> TRUE, text |-> c],
       tags |-> [classification_sequence |-> NoTag,
                 direction |-> [present |-> TRUE, text |-> "A01"],
                 contract_marketagreement_type |-> NoTag],
       periods |-> ps] :
      c \in {"A01", "A03"}, ps \in PeriodLists }

\* the keyword arguments: merge_series, and no attribute or the direction
ParseOptions ==
    { [merge_series |-> m,
       add |-> [classification_sequence |-> FALSE, direction |-> d,
                contract_marketagreement_type |-> FALSE]] :
      m \in BOOLEAN, d \in BOOLEAN }

\* a quarter-hourly period with two readings
QuarterPeriod ==
    [start |-> PeriodStart, end |-> PeriodStart + 30, resolution |-> "PT15M",
     points |-> << [position |-> 1, text |-> <<"2">>],
                   [position |-> 2, text |-> <<"0">>] >>]

\* an hourly period whose sole point reads "0"
ZeroPeriod ==
    [start |-> PeriodStart, end |-> PeriodStart + 60, resolution |-> "PT60M",
     points |-> << [position |-> 1, text |-> <<"0">>] >>]

\* a tag of the document: absent, present without a text, or present
TagShapes == { NoTag, [present |-> TRUE, text |-> ""],
               [present |-> TRUE, text |-> "A01"] }

\* timeseries elements of every shape: with and without a curve type, with
\* no period, with periods that are all left out, with periods of one or two
\* resolutions, and with attribute tags that are absent or empty
ShapeDocuments ==
    { [curvetype |-> c,
       tags |-> [classification_sequence |-> [present |-> TRUE, text |-> "1"],
                 direction |-> d,
                 contract_marketagreement_type |-> k],
       periods |-> ps] :
      c \in { NoTag, [present |-> TRUE, text |-> "A01"] },
      d \in TagShapes, k \in { NoTag, [present |-> TRUE, text |-> "A01"] },
      ps \in { <<>>, <<ZeroPeriod>>, <<HourlyPeriod>>,
               <<ZeroPeriod, HourlyPeriod>>, <<QuarterPeriod, HourlyPeriod>>,
               <<HourlyPeriod, QuarterPeriod>> } }

\* the keyword arguments with any choice of attributes
AttributeOptions ==
    { [merge_series |-> m,
       add |-> [classification_sequence |-> c, direction |-> d,
                contract_marketagreement_type |-> k]] :
      m \in BOOLEAN, c \in BOOLEAN, d \in BOOLEAN, k \in BOOLEAN }

\* the calls under study
ParseCalls ==
    { [doc |-> doc, opts |-> opts] : doc \in Documents, opts \in ParseOptions }
    \cup { [doc |-> doc, opts |-> opts] :
             doc \in ShapeDocuments, opts \in AttributeOptions }

\* _parse_timeseries_generic
ParseTimeseriesGeneric ==
    /\ pc = "idle"
    /\ \E call \in ParseCalls :
         /\ args' = [op |-> "_parse_timeseries_generic", doc |-> call.doc,
                     opts |-> call.opts]
         /\ ret' = parse_timeseries_generic(call.doc, call.opts)
    /\ pc' = "done"
    /\ UNCHANGED RESOLUTIONS

NextParse == ParseTimeseriesGeneric \/ Return

SpecParse == Idle /\ [][NextParse]_vars

\* _parse_timeseries_generic has ended, with a result or an exception
ParseEnded == pc = "done" /\ args.op = "_parse_timeseries_generic"

\* _parse_timeseries_generic has returned a result
ParseDone == ParseEnded /\ ret.ok

\* every row of the result: of the combined series, or of the series of a
\* frequency
ResultRows(f) == IF ret.merged THEN ret.rows ELSE ret.series[f].rows

\* the period's resolution code is one of the table
Known(period) == period.resolution \in DOMAIN ResolutionTable

\* the period has exactly one point, with the text "0"
SoleZero(period) ==
    Len(period.points) = 1 /\ period.points[1].text = <<"0">>

\* the periods of a document without the i-th
WithoutPeriod(doc, i) ==
    [doc EXCEPT !.periods =
        SubSeq(doc.periods, 1, i - 1) \o SubSeq(doc.periods, i + 1, Len(doc.periods))]

\* C3: a resolution code that is not one of the nine of the table resolves
\* to an error, never to a step, and parsing a timeseries with a period of
\* such a code raises instead of returning a series.
C3_UnknownResolutionFails ==
    ParseEnded =>
        \A i \in 1..Len(args.doc.periods) :
            ~Known(args.doc.periods[i]) =>
                /\ ~resolution_to_timedelta(args.doc.periods[i].resolution).ok
                /\ ~ret.ok

\* C3 witness: a timeseries with a period of an unknown resolution was
\* parsed and NotImplementedError came out
C3_Witness ==
    /\ ParseEnded
    /\ \E i \in 1..Len(args.doc.periods) : ~Known(args.doc.periods[i])
    /\ ~ret.ok
    /\ ret.exc = "NotImplementedError"

\* C7 (as claimed): every point of a period with start S and resolution R
\* is stored at S + (position - 1) calendar steps of R, for every resolution
\* of the table, and (when no reindexing follows) the result has a row there.
C7_PointsAtCalendarSteps ==
    ParseDone =>
        \A i \in 1..Len(args.doc.periods) :
            LET p    == args.doc.periods[i]
                freq == RESOLUTIONS[p.resolution]
            IN \A j \in 1..Len(p.points) :
                 LET at == <<StepWall(p.start, freq, p.points[j].position - 1), 0>>
                 IN /\ point_key(p.start, Timedelta(freq), p.points[j].position) = at
                    /\ (/\ args.doc.curvetype.text # "A03"
                        /\ ~single_zero(period_data(p.start, Timedelta(freq), p.points)))
                       => \E k \in 1..Len(ResultRows(freq)) :
                              ResultRows(freq)[k].ts = at

\* C8: a period whose sole point has the text "0" contributes no row: the
\* result is the result of parsing the timeseries without that period,
\* whatever the curve type, the requested attributes and the merge mode.
C8_SoleZeroPeriodContributesNothing ==
    ParseDone =>
        \A i \in 1..Len(args.doc.periods) :
            SoleZero(args.doc.periods[i]) =>
                ret = parse_timeseries_generic(WithoutPeriod(args.doc, i), args.opts)

\* C8 witness: a timeseries with a sole-zero period next to the hourly
\* period was parsed into one series, which has the two hourly readings only
C8_Witness ==
    /\ ParseDone
    /\ Len(args.doc.periods) = 2
    /\ \E i \in 1..2 : SoleZero(args.doc.periods[i])
    /\ ret.merged
    /\ Len(ret.rows) = 2

\* the points of a period that carry position q
PointsAt(p, q) == { j \in 1..Len(p.points) : p.points[j].position = q }

\* the positions up to k that a period has a point for
PresentUpTo(p, k) == { q \in 1..k : PointsAt(p, q) # {} }

\* the period is left out by the sole-zero rule: one timestamp is filled,
\* and the text stored last under it is "0"
LeftOut(p) ==
    /\ Cardinality({ p.points[j].position : j \in 1..Len(p.points) }) = 1
    /\ p.points[Len(p.points)].text = <<"0">>

\* the number of whole steps of its resolution from a period's start to its
\* end: (end - start) / step
StepCount(p) ==
    Cardinality({ k \in 1..(SetMax(StepCounts) + 1) :
                    StepWall(p.start, RESOLUTIONS[p.resolution], k) <= p.end })

\* a text with its commas removed
CommaFree ==
    (<<"0">> :> <<"0">>) @@ (<<"2">> :> <<"2">>) @@
    (<<"1", ",", "2", "3", "4", ".", "5">> :> <<"1", "2", "3", "4", ".", "5">>) @@
    (<<"N", "/", "A">> :> <<"N", "/", "A">>)

\* the number a comma-free text denotes, as <<m, d>> for m / 10^d
Denotes ==
    (<<"0">> :> <<0, 0>>) @@ (<<"2">> :> <<2, 0>>) @@
    (<<"1", "2", "3", "4", ".", "5">> :> <<12345, 1>>)

\* the text is numeric once its commas are removed
Numeric(text) == CommaFree[text] \in DOMAIN Denotes

\* the cell of the number a point's text denotes (no cell for a text that
\* denotes none)
NumberCell(text) ==
    IF Numeric(text) THEN FloatCell(Denotes[CommaFree[text]])
    ELSE [kind |-> "none", text |-> text, num |-> <<0, 0>>]

\* the i-th period is the only one of its resolution, and the result shows
\* the series of that resolution by itself
ShownAlone(i) ==
    /\ \A k \in 1..Len(args.doc.periods) :
          k # i => args.doc.periods[k].resolution # args.doc.periods[i].resolution
    /\ ~ret.merged \/ Len(args.doc.periods) = 1

\* C9 (as claimed): the fragment of a period of an A03 timeseries has one row
\* for every step in [start, end - step], (end - start) / step rows in all,
\* and the value at a step is the value of the greatest present position not
\* after it, so that absent positions repeat the last present value.
C9_A03FragmentForwardFilled ==
    (ParseDone /\ args.doc.curvetype.text = "A03") =>
        \A i \in 1..Len(args.doc.periods) :
            LET p    == args.doc.periods[i]
                freq == RESOLUTIONS[p.resolution]
                rows == ResultRows(freq)
            IN (ShownAlone(i) /\ ~LeftOut(p)) =>
                 /\ Len(rows) = StepCount(p)
                 /\ \A k \in 1..Len(rows) :
                      /\ rows[k].ts = <<StepWall(p.start, freq, k - 1), 0>>
                      /\ PresentUpTo(p, k) # {} =>
                           \E j \in PointsAt(p, SetMax(PresentUpTo(p, k))) :
                               rows[k].value = NumberCell(p.points[j].text)

\* the j-th point of a period reaches the assembled series: its period is
\* not left out, no later point of the period has its position, and under
\* A03 its timestamp is one of the steps the period is reindexed to
Surviving(doc, p, j) ==
    /\ Known(p)
    /\ ~LeftOut(p)
    /\ \A k \in PointsAt(p, p.points[j].position) : k <= j
    /\ doc.curvetype.text = "A03" =>
          \E k \in 1..StepCount(p) :
              point_key(p.start, Timedelta(RESOLUTIONS[p.resolution]),
                        p.points[j].position)
                  = <<StepWall(p.start, RESOLUTIONS[p.resolution], k - 1), 0>>

\* the surviving points of the parsed timeseries, as <<period, point>>
SurvivingPoints ==
    { ij \in (1..Len(args.doc.periods)) \X (1..MaxPoints) :
        /\ ij[2] <= Len(args.doc.periods[ij[1]].points)
        /\ Surviving(args.doc, args.doc.periods[ij[1]], ij[2]) }

Occurrences(rows, r) == Cardinality({ k \in 1..Len(rows) : rows[k] = r })

\* the rows, cast to float, of the fragment of the i-th period of the parsed
\* timeseries (none when the period is left out)
FragmentRows(i) ==
    LET r == parse_period(args.doc, args.opts, args.doc.periods[i]) IN
    IF r.skip THEN <<>> ELSE astype_float(r.rows)

\* the periods of the parsed timeseries whose resolution has the step f
PeriodsOf(f) ==
    { i \in 1..Len(args.doc.periods) :
        RESOLUTIONS[args.doc.periods[i].resolution] = f }

RECURSIVE FragmentOccurrences(_, _, _)
\* the number of times a row occurs in the fragments of step f, from the
\* i-th period on
FragmentOccurrences(f, r, i) ==
    IF i > Len(args.doc.periods) THEN 0
    ELSE (IF i \in PeriodsOf(f) THEN Occurrences(FragmentRows(i), r) ELSE 0)
         + FragmentOccurrences(f, r, i + 1)

\* the timestamps of a sequence of rows never decrease
Ordered(rows) ==
    \A k \in 1..(Len(rows) - 1) : ~TsLess(rows[k + 1].ts, rows[k].ts)

\* C11: in the mapping returned without merge_series, the series of every
\* step is in non-decreasing order of timestamp and holds each row exactly as
\* many times as the surviving fragments of that step do: rows of equal
\* timestamp are all kept and no fragment lands under another step.
C11_GroupsSortedAndComplete ==
    (ParseDone /\ ~ret.merged) =>
        \A f \in DOMAIN ret.series :
            /\ Ordered(ret.series[f].rows)
            /\ \A k \in 1..Len(ret.series[f].rows) :
                  Occurrences(ret.series[f].rows, ret.series[f].rows[k])
                      = FragmentOccurrences(f, ret.series[f].rows[k], 1)
            /\ \A i \in PeriodsOf(f) : \A k \in 1..Len(FragmentRows(i)) :
                  Occurrences(ret.series[f].rows, FragmentRows(i)[k])
                      = FragmentOccurrences(f, FragmentRows(i)[k], 1)

\* C11 witness: two periods of one resolution were parsed without
\* merge_series, and their rows of equal timestamp are both in the series
C11_Witness ==
    /\ ParseDone
    /\ ~ret.merged
    /\ Len(args.doc.periods) = 2
    /\ \E f \in DOMAIN ret.series : \E k \in 1..(Len(ret.series[f].rows) - 1) :
          /\ ret.series[f].rows[k].ts = ret.series[f].rows[k + 1].ts
          /\ PeriodsOf(f) = {1, 2}

\* the attributes the call asks for
Requested == { c \in DOMAIN args.opts.add : args.opts.add[c] }

\* the requested attributes whose tag is in the document with a text
RequestedAndTagged ==
    { c \in Requested :
        args.doc.tags[c].present /\ args.doc.tags[c].text # "" }

\* every row of the result
AllRows ==
    IF ret.merged THEN ret.rows
    ELSE concat_present(ret.series, 1)

\* C12 (as claimed): when an attribute is requested the result is a table
\* whose rows carry a column for every requested attribute, also when the tag
\* of a requested attribute is absent or empty.
C12_ColumnPerRequestedAttribute ==
    (ParseDone /\ Requested # {}) =>
        /\ ret.table
        /\ \A k \in 1..Len(AllRows) : DOMAIN AllRows[k].cols = Requested

\* C12 (amended): when an attribute is requested the result is a table whose
\* rows carry a column for every requested attribute whose tag is in the
\* document with a non-empty text, and no other; the column holds the text of
\* the tag in every row.
C12_ColumnPerRequestedTaggedAttribute ==
    (ParseDone /\ Requested # {}) =>
        /\ ret.table
        /\ \A k \in 1..Len(AllRows) :
              /\ DOMAIN AllRows[k].cols = RequestedAndTagged
              /\ \A c \in RequestedAndTagged :
                    AllRows[k].cols[c] = args.doc.tags[c].text

\* C12 witness: the direction and the contract type were requested of a
\* timeseries that has only the direction tag, and the rows that came out
\* carry the direction column only
C12_Witness ==
    /\ ParseDone
    /\ Requested = {"direction", "contract_marketagreement_type"}
    /\ RequestedAndTagged = {"direction"}
    /\ Len(AllRows) > 0
    /\ \A k \in 1..Len(AllRows) : DOMAIN AllRows[k].cols = {"direction"}

RECURSIVE GroupOccurrences(_, _, _)
\* the number of times a row occurs in the series of the steps of a mapping,
\* from the i-th step of the table on
GroupOccurrences(series, r, i) ==
    IF i > Len(FreqOrder) THEN 0
    ELSE Occurrences(series[FreqOrder[i]].rows, r)
         + GroupOccurrences(series, r, i + 1)

\* what the call returns when merge_series is off
Split ==
    parse_timeseries_generic(args.doc, [args.opts EXCEPT !.merge_series = FALSE])

\* no period of the parsed timeseries leaves a fragment
NothingSurvives ==
    \A i \in 1..Len(args.doc.periods) :
        Known(args.doc.periods[i]) /\ LeftOut(args.doc.periods[i])

\* C13: with merge_series the parser returns one series or table that holds
\* each row exactly as many times as the series of the steps together do
\* (nothing lost, nothing added), and an empty table, not an error, when no
\* fragment survives.
C13_MergedIsUnionOfGroups ==
    (ParseEnded /\ args.opts.merge_series) =>
        \A split \in {Split} :
            /\ ret.ok <=> split.ok
            /\ ret.ok =>
                 /\ ret.merged
                 /\ \A k \in 1..Len(ret.rows) :
                       Occurrences(ret.rows, ret.rows[k])
                           = GroupOccurrences(split.series, ret.rows[k], 1)
                 /\ \A f \in DOMAIN split.series :
                       \A k \in 1..Len(split.series[f].rows) :
                           Occurrences(ret.rows, split.series[f].rows[k])
                               = GroupOccurrences(split.series,
                                                  split.series[f].rows[k], 1)
            /\ NothingSurvives => (ret.ok /\ ret.table /\ ret.rows = <<>>)

\* C13 witness: a timeseries with a quarter-hourly and an hourly period was
\* parsed with merge_series, and the four readings are in the one series
C13_Witness ==
    /\ ParseDone
    /\ args.opts.merge_series
    /\ \E i, j \in 1..Len(args.doc.periods) :
          args.doc.periods[i].resolution # args.doc.periods[j].resolution
    /\ Len(ret.rows) = 4

\* C14 (as claimed): every series or table the generic parser returns is in
\* ascending order of timestamp: the series of each step, and the combined
\* result under merge_series, also when the periods differ in resolution.
C14_ResultsOrdered ==
    ParseDone =>
        IF ret.merged THEN Ordered(ret.rows)
        ELSE \A f \in DOMAIN ret.series : Ordered(ret.series[f].rows)

\* C16 (as claimed): parsing a timeseries that lacks a required element (here
\* the curve type) ends in an error and returns no result, also when every
\* period is left out by the sole-zero rule or there is no period.
C16_MissingElementIsFatal ==
    (ParseEnded /\ ~args.doc.curvetype.present) => ~ret.ok

\* ------------------------------------- specification: whole-document parser

\* most timeseries elements of a response text
MaxSeries == 2

\* a period with a resolution code the table does not know
UnknownPeriod ==
    [start |-> PeriodStart, end |-> PeriodStart + 10, resolution |-> "PT5M",
     points |-> << [position |-> 1, text |-> <<"2">>] >>]

\* the timeseries elements of a response: without a period, with periods
\* that are left out, with readings of one or two resolutions, with an
\* unknown resolution
WholeSeries ==
    { [curvetype |-> [present |-> TRUE, text |-> "A01"],
       tags |-> [classification_sequence |-> NoTag,
                 direction |-> [present |-> TRUE, text |-> "A01"],
                 contract_marketagreement_type |-> NoTag],
       periods |-> ps] :
      ps \in { <<>>, <<ZeroPeriod>>, <<HourlyPeriod>>, <<QuarterPeriod>>,
               <<QuarterPeriod, HourlyPeriod>>, <<UnknownPeriod>> } }

\* the response texts: the empty text, and the documents with at most
\* MaxSeries timeseries elements
WholeTexts ==
    { [empty |-> TRUE, timeseries |-> <<>>] }
    \cup { [empty |-> FALSE, timeseries |-> q] : q \in SeqsUpTo(WholeSeries, MaxSeries) }

\* _parse_timeseries_generic_whole
ParseTimeseriesGenericWhole ==
    /\ pc = "idle"
    /\ \E text \in WholeTexts, take_last \in BOOLEAN, opts \in ParseOptions :
         /\ args' = [op |-> "_parse_timeseries_generic_whole", text |-> text,
                     take_last |-> take_last, opts |-> opts]
         /\ ret' = parse_timeseries_generic_whole(text, take_last, opts)
    /\ pc' = "done"
    /\ UNCHANGED RESOLUTIONS

NextWhole == ParseTimeseriesGenericWhole \/ Return

SpecWhole == Idle /\ [][NextWhole]_vars

\* _parse_timeseries_generic_whole has ended, with a result or an exception
WholeEnded == pc = "done" /\ args.op = "_parse_timeseries_generic_whole"

\* the response yields no usable data: the text is empty, it has no
\* timeseries element, or every timeseries has no period or only periods that
\* the sole-zero rule leaves out
NoUsableData(text) ==
    \/ text.empty
    \/ \A k \in 1..Len(text.timeseries) :
          \A i \in 1..Len(text.timeseries[k].periods) :
              /\ Known(text.timeseries[k].periods[i])
              /\ LeftOut(text.timeseries[k].periods[i])

\* C15 (as claimed): when the response yields no usable data, what
\* _parse_timeseries_generic_whole reports to its caller is the data-absence
\* outcome NoMatchingDataError, never another exception and never a result.
C15_NoDataIsNoMatchingData ==
    (WholeEnded /\ NoUsableData(args.text)) =>
        (~ret.ok /\ ret.exc = "NoMatchingDataError")

\* ------------------------------- specification: price and net position queries

\* the keyword arguments _parse_timeseries_generic has by default
DefaultOptions ==
    [merge_series |-> FALSE,
     add |-> [classification_sequence |-> FALSE, direction |-> FALSE,
              contract_marketagreement_type |-> FALSE]]

\* the series of one resolution gathered so far, with those of a further
\* timeseries: an exception of the parser goes through, an entry that is None
\* adds nothing
gather(sofar, resolution, m) ==
    IF ~m.ok THEN m
    ELSE [ok |-> TRUE,
          rows |-> sofar.rows \o (IF m.series[resolution].present
                                  THEN m.series[resolution].rows ELSE <<>>)]

RECURSIVE gather_each(_, _, _, _)
\* the series of one resolution of the timeseries elements from the i-th on
gather_each(soups, resolution, i, sofar) ==
    IF ~sofar.ok \/ i > Len(soups) THEN sofar
    ELSE gather_each(soups, resolution, i + 1,
                     gather(sofar, resolution,
                            parse_timeseries_generic(soups[i], DefaultOptions)))

\* the sorted series of what was gathered
sorted_series(gathered) ==
    IF ~gathered.ok THEN gathered
    ELSE [ok |-> TRUE, tz |-> "UTC", rows |-> sort_index(gathered.rows)]

\* parse_prices(xml_text)[resolution]: the series of the resolution over the
\* timeseries elements of the text, sorted; an empty series when the
\* resolution was never populated
parse_prices(xml_text, resolution) ==
    sorted_series(gather_each(extract_timeseries(xml_text), resolution, 1,
                              [ok |-> TRUE, rows |-> <<>>]))

\* parse_netpositions(xml_text, resolution): as parse_prices for the one
\* resolution (the sign of the values is not modelled)
parse_netpositions(xml_text, resolution) ==
    sorted_series(gather_each(extract_timeseries(xml_text), resolution, 1,
                              [ok |-> TRUE, rows |-> <<>>]))

\* raise_if_empty that returns the series as it is
return_if_empty(series) == series

\* if len(series) == 0: raise NoMatchingDataError
raise_if_empty(series) ==
    IF series.ok /\ Len(series.rows) = 0
    THEN [ok |-> FALSE, exc |-> "NoMatchingDataError"]
    ELSE series

\* truncate that cuts before the first row at `after`
truncate_before_after(rows, before, after) ==
    LET within(r) == ~TsLess(r.ts, <<before, 0>>) /\ TsLess(r.ts, <<after, 0>>)
    IN SelectSeq(rows, within)

\* series.truncate(before, after) of a sorted series: the rows from before to
\* after, both included
truncate(rows, before, after) ==
    LET within(r) == ~TsLess(r.ts, <<before, 0>>) /\ ~TsLess(<<after, 0>>, r.ts)
    IN SelectSeq(rows, within)

\* the rest of query_day_ahead_prices once _query_day_ahead_prices returned:
\* series.tz_convert(area.tz).sort_index(), truncate(before=start,
\* after=end), and the check that data is left
truncated_prices(series, area_tz, start, end) ==
    IF ~series.ok THEN series
    ELSE raise_if_empty([ok |-> TRUE, tz |-> area_tz,
                         rows |-> truncate(sort_index(series.rows), start, end)])

\* the rest of query_net_position once the series passed the length check:
\* series.tz_convert(area.tz) and truncate(before=start, after=end)
truncated_net_position(series, area_tz, start, end) ==
    IF ~series.ok THEN series
    ELSE [ok |-> TRUE, tz |-> area_tz,
          rows |-> truncate(series.rows, start, end)]

\* the window query_day_ahead_prices asks _query_day_ahead_prices for
padded_window(start, end) == <<start - 1440, end + 1440>>

\* EntsoePandasClient._query_day_ahead_prices, given the response of the raw
\* client (a text, or the exception it raised)
query_day_ahead_prices_inner(response, resolution) ==
    IF ~response.ok THEN response
    ELSE raise_if_empty(parse_prices(response.text, resolution))

\* EntsoePandasClient.query_day_ahead_prices
query_day_ahead_prices(response, area_tz, start, end, resolution) ==
    IF resolution \notin {"60min", "30min", "15min"}
    THEN [ok |-> FALSE, exc |-> "InvalidParameterError"]
    ELSE truncated_prices(query_day_ahead_prices_inner(response, resolution),
                          area_tz, start, end)

\* EntsoePandasClient.query_net_position
query_net_position(response, area_tz, start, end, resolution) ==
    IF ~response.ok THEN response
    ELSE truncated_net_position(
             raise_if_empty(parse_netpositions(response.text, resolution)),
             area_tz, start, end)

\* what the raw client gives back: NoMatchingDataError, or a response text
Responses ==
    { [ok |-> FALSE, exc |-> "NoMatchingDataError"] }
    \cup { [ok |-> TRUE, text |-> t] : t \in WholeTexts }

\* the instants a request window starts and ends at: minutes after
\* 2022-01-01T00:00Z
WindowInstants == { PeriodStart, PeriodStart + 15, PeriodStart + 60,
                    PeriodStart + 120 }

\* the request windows
PriceWindows ==
    { w \in WindowInstants \X WindowInstants : w[1] <= w[2] }

\* EntsoePandasClient.query_day_ahead_prices
QueryDayAheadPrices ==
    /\ pc = "idle"
    /\ \E response \in Responses, w \in PriceWindows,
          resolution \in {"60min", "30min", "15min", "5min"} :
         /\ args' = [op |-> "query_day_ahead_prices", response |-> response,
                     area_tz |-> "Europe/Brussels",
                     start |-> w[1], end |-> w[2], resolution |-> resolution,
                     requested |-> padded_window(w[1], w[2])]
         /\ ret' = query_day_ahead_prices(response, "Europe/Brussels",
                                          w[1], w[2], resolution)
    /\ pc' = "done"
    /\ UNCHANGED RESOLUTIONS

\* EntsoePandasClient.query_net_position
QueryNetPosition ==
    /\ pc = "idle"
    /\ \E response \in Responses, w \in PriceWindows,
          resolution \in {"60min", "30min", "15min"} :
         /\ args' = [op |-> "query_net_position", response |-> response,
                     area_tz |-> "Europe/Brussels",
                     start |-> w[1], end |-> w[2], resolution |-> resolution,
                     requested |-> <<w[1], w[2]>>]
         /\ ret' = query_net_position(response, "Europe/Brussels",
                                      w[1], w[2], resolution)
    /\ pc' = "done"
    /\ UNCHANGED RESOLUTIONS

NextPrices == QueryDayAheadPrices \/ QueryNetPosition \/ Return

SpecPrices == Idle /\ [][NextPrices]_vars

\* a price or net position query has ended on a response text, for a
\* resolution the query accepts
QueryEnded ==
    /\ pc = "done"
    /\ args.op \in {"query_day_ahead_prices", "query_net_position"}
    /\ args.response.ok
    /\ args.resolution \in {"60min", "30min", "15min"}

\* the timeseries elements of the response of the query
Soups == extract_timeseries(args.response.text)

\* the periods of a timeseries with the step f that leave a fragment
SurvivingPeriods(soup, f) ==
    { i \in 1..Len(soup.periods) :
        /\ RESOLUTIONS[soup.periods[i].resolution] = f
        /\ ~LeftOut(soup.periods[i]) }

\* C17: the mapping _parse_timeseries_generic returns has an entry for every
\* step of the resolution table, and the entry of a step without fragment is
\* None, not an empty series; and a price or net position query for a
\* resolution that no timeseries of the response populated ends with
\* NoMatchingDataError.
C17_UnpopulatedResolutionIsNoData ==
    QueryEnded =>
        \A ms \in { [k \in 1..Len(Soups) |->
                        parse_timeseries_generic(Soups[k], DefaultOptions)] } :
            (\A k \in 1..Len(Soups) : ms[k].ok) =>
                /\ \A k \in 1..Len(Soups) :
                      /\ DOMAIN ms[k].series
                             = { ResolutionTable[c] : c \in DOMAIN ResolutionTable }
                      /\ \A f \in DOMAIN ms[k].series :
                            ms[k].series[f].present
                                <=> SurvivingPeriods(Soups[k], f) # {}
                /\ (\A k \in 1..Len(Soups) :
                        ~ms[k].series[args.resolution].present)
                       => (~ret.ok /\ ret.exc = "NoMatchingDataError")

\* C17 witness: the response has hourly readings only, the quarter-hourly
\* prices were asked for, and the query ended with NoMatchingDataError
C17_Witness ==
    /\ QueryEnded
    /\ args.op = "query_day_ahead_prices"
    /\ args.resolution = "15min"
    /\ Len(Soups) = 1
    /\ Soups[1].periods = <<HourlyPeriod>>
    /\ ~ret.ok
    /\ ret.exc = "NoMatchingDataError"

\* the rows that _query_day_ahead_prices parsed for the query
ParsedPrices == parse_prices(args.response.text, args.resolution)

\* the timestamp of a row lies from start to end of the request
InWindow(r) ==
    /\ ~TsLess(r.ts, <<args.start, 0>>)
    /\ ~TsLess(<<args.end, 0>>, r.ts)

\* C18: query_day_ahead_prices asks for the window widened by a day on each
\* side; no row of its result lies before the caller's start or after the
\* caller's end, every parsed row from start to end is in the result as often
\* as it was parsed, and when no parsed row lies in the window the query
\* raises NoMatchingDataError instead of returning an empty series.
C18_PricesTruncatedToWindow ==
    (QueryEnded /\ args.op = "query_day_ahead_prices") =>
        \A parsed \in {ParsedPrices} :
            /\ args.requested = <<args.start - 1440, args.end + 1440>>
            /\ ret.ok =>
                 /\ Len(ret.rows) > 0
                 /\ \A k \in 1..Len(ret.rows) :
                       /\ InWindow(ret.rows[k])
                       /\ Occurrences(ret.rows, ret.rows[k])
                              = Occurrences(parsed.rows, ret.rows[k])
            /\ parsed.ok =>
                 /\ \A k \in 1..Len(parsed.rows) :
                       InWindow(parsed.rows[k]) =>
                           /\ ret.ok
                           /\ Occurrences(ret.rows, parsed.rows[k])
                                  = Occurrences(parsed.rows, parsed.rows[k])
                 /\ (\A k \in 1..Len(parsed.rows) : ~InWindow(parsed.rows[k]))
                       => (~ret.ok /\ ret.exc = "NoMatchingDataError")

\* C18 witness: hourly prices at 00:00 and 01:00 were parsed for a window
\* from 00:15 to 01:00, and the result is the row of 01:00
C18_Witness ==
    /\ QueryEnded
    /\ args.op = "query_day_ahead_prices"
    /\ args.start = PeriodStart + 15
    /\ args.end = PeriodStart + 60
    /\ ret.ok
    /\ Len(ParsedPrices.rows) = 2
    /\ Len(ret.rows) = 1
    /\ ret.rows[1].ts = <<PeriodStart + 60, 0>>

\* ------------------------------------------ specification: concurrent parsing

\* the threads that call the parsers
Threads == 1..MaxThreads

\* In this specification pc, args and ret are functions of the thread. pc[t]
\* is the position of thread t in its call (at) and the index of the period
\* or timeseries element its loop is at (i); ret[t] is the local variable the
\* loop fills (series, series_all) while the call runs and the value
\* returned once it is done.
AtIdle == [at |-> "idle", i |-> 0]

AtDone == [at |-> "done", i |-> 0]

\* RESOLUTIONS after a lookup that also enters an unknown code with the hourly
\* step
table_after_setdefault(table, res_text) ==
    IF res_text \in DOMAIN table THEN table ELSE table @@ (res_text :> "60min")

\* RESOLUTIONS after _resolution_to_timedelta looked res_text up:
\* RESOLUTIONS.get(res_text) reads the table
table_after_lookup(table, res_text) == table

\* RESOLUTIONS after an iteration that takes the quarter-hourly code out
table_after_pop(table) ==
    [c \in DOMAIN table \ {"PT15M"} |-> table[c]]

\* RESOLUTIONS after series = {v: [] for v in RESOLUTIONS.values()}: the
\* iteration reads the table
table_after_values(table) == table

RECURSIVE table_after_periods(_, _, _)
\* RESOLUTIONS after the lookups of the periods from the i-th on
table_after_periods(table, periods, i) ==
    IF i > Len(periods) THEN table
    ELSE table_after_periods(table_after_lookup(table, periods[i].resolution),
                             periods, i + 1)

\* RESOLUTIONS after one whole call of _parse_timeseries_generic
table_after_parse(table, doc) ==
    table_after_periods(table_after_values(table), doc.periods, 1)

\* the timeseries elements the threads parse: hourly readings, quarter-hourly
\* and hourly readings, and readings of a resolution the table does not know
ConcSeries ==
    { [curvetype |-> [present |-> TRUE, text |-> "A01"],
       tags |-> [classification_sequence |-> NoTag,
                 direction |-> [present |-> TRUE, text |-> "A01"],
                 contract_marketagreement_type |-> NoTag],
       periods |-> ps] :
      ps \in { <<HourlyPeriod>>, <<QuarterPeriod, HourlyPeriod>>,
               <<UnknownPeriod>>, <<HourlyPeriod, UnknownPeriod>> } }

\* the options of the calls: the defaults, and merge_series
ConcOptions == { DefaultOptions, [DefaultOptions EXCEPT !.merge_series = TRUE] }

\* the timeseries with hourly readings, and the one with readings of an
\* unknown resolution
HourlySeries == CHOOSE a \in ConcSeries : a.periods = <<HourlyPeriod>>

UnknownSeries == CHOOSE a \in ConcSeries : a.periods = <<UnknownPeriod>>

\* the response texts the threads parse: the empty text, a document without
\* timeseries, and documents with one or two timeseries
ConcTexts ==
    { [empty |-> TRUE, timeseries |-> <<>>],
      [empty |-> FALSE, timeseries |-> <<>>],
      [empty |-> FALSE, timeseries |-> <<HourlySeries>>],
      [empty |-> FALSE, timeseries |-> <<UnknownSeries>>],
      [empty |-> FALSE, timeseries |-> <<HourlySeries, UnknownSeries>>] }
    \cup { [empty |-> FALSE, timeseries |-> <<a, HourlySeries>>] :
             a \in { c \in ConcSeries : Len(c.periods) = 2 } }

IdleThreads ==
    /\ RESOLUTIONS = ResolutionTable
    /\ pc = [t \in Threads |-> AtIdle]
    /\ args = [t \in Threads |-> [op |-> "none"]]
    /\ ret = [t \in Threads |-> [op |-> "none"]]

\* thread t calls _resolution_to_timedelta
CallResolutionToTimedelta(t) ==
    /\ pc[t] = AtIdle
    /\ \E res_text \in {"PT60M", "PT15M", "PT5M"} :
         /\ args' = [args EXCEPT ![t] = [op |-> "_resolution_to_timedelta",
                                         res_text |-> res_text]]
         /\ ret' = [ret EXCEPT ![t] = resolution_to_timedelta(res_text)]
         /\ RESOLUTIONS' = table_after_lookup(RESOLUTIONS, res_text)
    /\ pc' = [pc EXCEPT ![t] = AtDone]

\* thread t calls _parse_datetimeindex
CallParseDatetimeIndex(t) ==
    /\ pc[t] = AtIdle
    /\ \E res \in {"PT60M", "PT15M", "PT5M"}, tz \in {"Europe/Brussels"} :
         /\ args' = [args EXCEPT ![t] = [op |-> "_parse_datetimeindex",
                                         start |-> PeriodStart,
                                         end |-> PeriodStart + 120,
                                         resolution |-> res, tz |-> tz]]
         /\ ret' = [ret EXCEPT ![t] =
                       parse_datetimeindex(PeriodStart, PeriodStart + 120, res, tz)]
         /\ RESOLUTIONS' = table_after_lookup(RESOLUTIONS, res)
    /\ pc' = [pc EXCEPT ![t] = AtDone]

\* thread t calls _parse_timeseries_generic and creates the dict series
CallParseTimeseriesGeneric(t) ==
    /\ pc[t] = AtIdle
    /\ \E doc \in ConcSeries, opts \in ConcOptions :
         args' = [args EXCEPT ![t] = [op |-> "_parse_timeseries_generic",
                                      doc |-> doc, opts |-> opts]]
    /\ ret' = [ret EXCEPT ![t] = [ok |-> TRUE, fragments |-> <<>>]]
    /\ pc' = [pc EXCEPT ![t] = [at |-> "periods", i |-> 1]]
    /\ RESOLUTIONS' = table_after_values(RESOLUTIONS)

\* the position of thread t after the body of a loop ended with outcome r
AfterBody(t, at, r) ==
    IF r.ok THEN [at |-> at, i |-> pc[t].i + 1] ELSE AtDone

\* the local variable series of thread t after the body of the loop over
\* the periods ended with outcome r
SeriesAfter(t, r) ==
    IF r.ok THEN [ok |-> TRUE, fragments |-> append_fragment(ret[t].fragments, r)]
    ELSE r

\* thread t runs the body of the loop over the periods for one period
ParsePeriod(t) ==
    /\ pc[t].at = "periods"
    /\ pc[t].i <= Len(args[t].doc.periods)
    /\ \E r \in { parse_period(args[t].doc, args[t].opts,
                                args[t].doc.periods[pc[t].i]) } :
         /\ ret' = [ret EXCEPT ![t] = SeriesAfter(t, r)]
         /\ pc' = [pc EXCEPT ![t] = AfterBody(t, "periods", r)]
    /\ RESOLUTIONS' = table_after_lookup(RESOLUTIONS,
                                          args[t].doc.periods[pc[t].i].resolution)
    /\ UNCHANGED args

\* thread t leaves the loop over the periods, builds the series of each
\* frequency and returns
FinishParseTimeseriesGeneric(t) ==
    /\ pc[t].at = "periods"
    /\ pc[t].i > Len(args[t].doc.periods)
    /\ ret' = [ret EXCEPT ![t] = after_periods(args[t].opts, ret[t])]
    /\ pc' = [pc EXCEPT ![t] = AtDone]
    /\ UNCHANGED <<RESOLUTIONS, args>>

\* thread t calls _parse_timeseries_generic_whole and creates series_all
CallParseTimeseriesGenericWhole(t) ==
    /\ pc[t] = AtIdle
    /\ \E text \in ConcTexts, take_last \in BOOLEAN :
         args' = [args EXCEPT ![t] = [op |-> "_parse_timeseries_generic_whole",
                                      text |-> text, take_last |-> take_last,
                                      opts |-> DefaultOptions]]
    /\ ret' = [ret EXCEPT ![t] = [ok |-> TRUE, series_all |-> <<>>]]
    /\ pc' = [pc EXCEPT ![t] = [at |-> "timeseries", i |-> 1]]
    /\ UNCHANGED RESOLUTIONS

\* the timeseries element the loop of thread t is at
Soup(t) == extract_timeseries(args[t].text)[pc[t].i]

\* thread t parses one timeseries element of its text
ParseSeries(t) ==
    /\ pc[t].at = "timeseries"
    /\ pc[t].i <= Len(extract_timeseries(args[t].text))
    /\ \E r \in { append_series(ret[t],
                      parse_timeseries_generic(
                          Soup(t), [args[t].opts EXCEPT !.merge_series = TRUE])) } :
         /\ ret' = [ret EXCEPT ![t] = r]
         /\ pc' = [pc EXCEPT ![t] = AfterBody(t, "timeseries", r)]
    /\ RESOLUTIONS' = table_after_parse(RESOLUTIONS, Soup(t))
    /\ UNCHANGED args

\* thread t leaves the loop over the timeseries elements and returns
FinishParseTimeseriesGenericWhole(t) ==
    /\ pc[t].at = "timeseries"
    /\ pc[t].i > Len(extract_timeseries(args[t].text))
    /\ ret' = [ret EXCEPT ![t] = whole_result(args[t].take_last, ret[t])]
    /\ pc' = [pc EXCEPT ![t] = AtDone]
    /\ UNCHANGED <<RESOLUTIONS, args>>

\* the call of thread t returns to its caller; nothing is kept
ReturnThread(t) ==
    /\ pc[t] = AtDone
    /\ pc' = [pc EXCEPT ![t] = AtIdle]
    /\ args' = [args EXCEPT ![t] = [op |-> "none"]]
    /\ ret' = [ret EXCEPT ![t] = [op |-> "none"]]
    /\ UNCHANGED RESOLUTIONS

NextConc ==
    \E t \in Threads :
        \/ CallResolutionToTimedelta(t)
        \/ CallParseDatetimeIndex(t)
        \/ CallParseTimeseriesGeneric(t)
        \/ ParsePeriod(t)
        \/ FinishParseTimeseriesGeneric(t)
        \/ CallParseTimeseriesGenericWhole(t)
        \/ ParseSeries(t)
        \/ FinishParseTimeseriesGenericWhole(t)
        \/ ReturnThread(t)

SpecConc == IdleThreads /\ [][NextConc]_vars

\* what the call with the arguments a returns when no other call runs
Alone(a) ==
    CASE a.op = "_resolution_to_timedelta" ->
             resolution_to_timedelta(a.res_text)
      [] a.op = "_parse_datetimeindex" ->
             parse_datetimeindex(a.start, a.end, a.resolution, a.tz)
      [] a.op = "_parse_timeseries_generic" ->
             parse_timeseries_generic(a.doc, a.opts)
      [] a.op = "_parse_timeseries_generic_whole" ->
             parse_timeseries_generic_whole(a.text, a.take_last, a.opts)

\* C19: no step of _resolution_to_timedelta, _parse_datetimeindex,
\* _parse_timeseries_generic or _parse_timeseries_generic_whole changes the
\* RESOLUTIONS table, and however the steps of two threads interleave, a call
\* that is done has returned what the same call returns when it runs alone.
C19_ConcurrentCallsAsAlone ==
    /\ [](\A t \in Threads : pc[t] = AtDone => ret[t] = Alone(args[t]))
    /\ [][RESOLUTIONS' = RESOLUTIONS]_vars

\* C19 witness: thread 2 has ended _parse_timeseries_generic with a mapping
\* while thread 1 is between the two periods of its own call of it
C19_Witness ==
    /\ pc[1] = [at |-> "periods", i |-> 2]
    /\ Len(args[1].doc.periods) = 2
    /\ Len(ret[1].fragments) = 1
    /\ pc[2] = AtDone
    /\ args[2].op = "_parse_timeseries_generic"
    /\ ret[2].ok
    /\ ret[2] = Alone(args[2])

\* C20: two calls with the same arguments return equal results, whatever
\* calls the other thread made before, between and during them: while one
\* thread holds the result of its call, the other makes any number of
\* calls and then the same call, and its result is equal.
C20_SameArgumentsSameResult ==
    \A t \in Threads, u \in Threads :
        (pc[t] = AtDone /\ pc[u] = AtDone /\ args[t] = args[u])
            => ret[t] = ret[u]

\* C20 witness: both threads have ended _parse_timeseries_generic for the
\* same timeseries of two periods with the same options, with a result
C20_Witness ==
    /\ pc[1] = AtDone
    /\ pc[2] = AtDone
    /\ args[1] = args[2]
    /\ args[1].op = "_parse_timeseries_generic"
    /\ Len(args[1].doc.periods) = 2
    /\ ret[1].ok
    /\ ret[1] = ret[2]

\* --------------------------------- generic timeseries parser: periods and points

\* the i-th period of the parsed timeseries
Period(i) == args.doc.periods[i]

\* the step of the i-th period
Freq(i) == RESOLUTIONS[Period(i).resolution]

\* the loop over the periods left the i-th period out
Discarded(i) ==
    \E r \in { parse_period(args.doc, args.opts, Period(i)) } : r.ok /\ r.skip

\* C25: _parse_timeseries_generic leaves a period out only if the period has
\* exactly one point element and the text of that point is exactly "0"; a
\* period with two or more point elements is never left out.
C25_DiscardedOnlyIfSoleZeroPoint ==
    ParseEnded =>
        \A i \in 1..Len(args.doc.periods) :
            Discarded(i) => SoleZero(Period(i))

\* the positions the points of a period carry
PresentPositions(p) == { p.points[j].position : j \in 1..Len(p.points) }

\* the timestamp of position q of the i-th period, in calendar steps of its
\* resolution
StepOf(i, q) == <<StepWall(Period(i).start, Freq(i), q - 1), 0>>

\* C26: for a timeseries whose curve type is not A03, the fragment of a period
\* has one row for each position its points carry, at the calendar step of
\* that position, holding the number of a point of that position; it has no
\* row for a position without point and no row without a value.
C26_SequentialFragmentHasPresentPositionsOnly ==
    (ParseDone /\ args.doc.curvetype.present /\ args.doc.curvetype.text # "A03") =>
        \A i \in 1..Len(args.doc.periods) :
            (ShownAlone(i) /\ ~LeftOut(Period(i))) =>
                \A rows \in { ResultRows(Freq(i)) } :
                    /\ Len(rows) = Cardinality(PresentPositions(Period(i)))
                    /\ { rows[k].ts : k \in 1..Len(rows) }
                          = { StepOf(i, q) : q \in PresentPositions(Period(i)) }
                    /\ \A k \in 1..Len(rows) :
                          /\ rows[k].value # NaN
                          /\ \E j \in 1..Len(Period(i).points) :
                                /\ StepOf(i, Period(i).points[j].position) = rows[k].ts
                                /\ rows[k].value = NumberCell(Period(i).points[j].text)

\* the first position a period has a point for
FirstPresent(p) ==
    CHOOSE q \in PresentPositions(p) : \A x \in PresentPositions(p) : q <= x

\* the i-th period of an A03 timeseries has its first point after position 1
LeadingGap(i) ==
    /\ args.doc.curvetype.text = "A03"
    /\ \A k \in 1..Len(args.doc.periods) : Known(Period(k))
    /\ Period(i).points # <<>>
    /\ FirstPresent(Period(i)) > 1

\* the fragment of the i-th period has a row for every step of the period, and
\* the rows of the steps before the first present position hold NaN; these
\* rows do not make the parse fail
GapLeftEmpty(i) ==
    /\ (\A ij \in SurvivingPoints :
           Numeric(args.doc.periods[ij[1]].points[ij[2]].text)) => ret.ok
    /\ (ret.ok /\ ShownAlone(i)) =>
          \A rows \in { ResultRows(Freq(i)) } :
              /\ Len(rows) = StepCount(Period(i))
              /\ \A k \in 1..Len(rows) :
                    /\ rows[k].ts = StepOf(i, k)
                    /\ k < FirstPresent(Period(i)) => rows[k].value = NaN

\* C27 (as claimed): every period of an A03 timeseries whose first present
\* position is k > 1 has a fragment of (end - start) / step rows, in which
\* the steps of the positions 1..k-1 hold NaN, and the parse does not fail
\* because of them.
C27_LeadingGapStaysEmpty ==
    ParseEnded =>
        \A i \in 1..Len(args.doc.periods) : LeadingGap(i) => GapLeftEmpty(i)

\* C27 (amended): the same for every such period that the sole-zero rule does
\* not leave out; a period that is left out has no fragment at all.
C27_LeadingGapStaysEmptyUnlessLeftOut ==
    ParseEnded =>
        \A i \in 1..Len(args.doc.periods) :
            (LeadingGap(i) /\ ~LeftOut(Period(i))) => GapLeftEmpty(i)

\* C27 witness: an hourly A03 period whose only point is at position 2 was
\* parsed: the row of the first hour holds NaN, the row of the second the
\* reading
C27_Witness ==
    /\ ParseDone
    /\ Len(args.doc.periods) = 1
    /\ LeadingGap(1)
    /\ Period(1).resolution = "PT60M"
    /\ PresentPositions(Period(1)) = {2}
    /\ ResultRows("60min")[1].value = NaN
    /\ ResultRows("60min")[2].value.kind = "float"

\* the row of position q of the i-th period is in its fragment: always when
\* the curve type is not A03, and under A03 when q is a step of the period
InFragment(i, q) ==
    \/ args.doc.curvetype.text # "A03"
    \/ \E k \in 1..StepCount(Period(i)) :
           point_key(Period(i).start, Timedelta(Freq(i)), q) = StepOf(i, k)

\* the rows of a sequence at a timestamp
RowsAt(rows, ts) == { k \in 1..Len(rows) : rows[k].ts = ts }

\* the periods with a point stored at the timestamp, none of them left out
PeriodsAt(ts) ==
    { i \in 1..Len(args.doc.periods) :
        /\ ~LeftOut(Period(i))
        /\ \E j \in 1..Len(Period(i).points) :
              /\ point_key(Period(i).start, Timedelta(Freq(i)),
                           Period(i).points[j].position) = ts
              /\ InFragment(i, Period(i).points[j].position) }

\* C28: two points of one period with the same position give one row, which
\* holds the value of the later point; rows of equal timestamp that come from
\* different periods of one resolution are all kept.
C28_LaterPointOverwritesWithinPeriod ==
    (ParseDone /\ args.doc.curvetype.present) =>
        /\ \A i \in 1..Len(args.doc.periods) :
              ShownAlone(i) =>
                \A j \in 1..Len(Period(i).points), l \in 1..Len(Period(i).points) :
                    (/\ j < l
                     /\ Period(i).points[j].position = Period(i).points[l].position
                     /\ \A m \in PointsAt(Period(i), Period(i).points[l].position) :
                           m <= l
                     /\ InFragment(i, Period(i).points[l].position)) =>
                        \A rows \in { ResultRows(Freq(i)) } :
                        \A at \in { RowsAt(rows,
                                       point_key(Period(i).start, Timedelta(Freq(i)),
                                                 Period(i).points[l].position)) } :
                            /\ Cardinality(at) = 1
                            /\ \A k \in at :
                                  rows[k].value = NumberCell(Period(i).points[l].text)
        /\ \A i \in 1..Len(args.doc.periods) : \A j \in 1..Len(Period(i).points) :
              \A ts \in { point_key(Period(i).start, Timedelta(Freq(i)),
                                    Period(i).points[j].position) } :
                  (/\ args.doc.curvetype.text # "A03"
                   /\ \A k \in PeriodsAt(ts) : Freq(k) = Freq(i)) =>
                      Cardinality(RowsAt(ResultRows(Freq(i)), ts))
                          = Cardinality(PeriodsAt(ts))

\* ------------------------------------------------- specification: raw requests

\* A timestamp handed to a query is [utc, tz]: for a timezone-aware one utc is
\* the instant in minutes since the epoch, for a timezone-naive one
\* (tz = "None") it is the wall-clock reading.

\* Timestamp.floor(freq="h")
floor_hour(w) == (w \div 60) * 60

\* Timestamp.round(freq="h"): to the nearest hour, a half hour to the even one
round_hour(w) ==
    IF w % 60 < 30 THEN (w \div 60) * 60
    ELSE IF w % 60 > 30 THEN ((w \div 60) + 1) * 60
    ELSE IF (w \div 60) % 2 = 0 THEN (w \div 60) * 60
    ELSE ((w \div 60) + 1) * 60

\* the characters of the decimal digits
DigitChar == <<"0", "1", "2", "3", "4", "5", "6", "7", "8", "9">>

\* a number below 100 as two characters, zero-padded (%m, %d, %H)
two_digits(n) == <<DigitChar[(n \div 10) + 1], DigitChar[(n % 10) + 1]>>

\* a year as four characters (%Y)
four_digits(n) == two_digits(n \div 100) \o two_digits(n % 100)

\* Timestamp.year and Timestamp.month of a wall-clock reading
YearOf(w) == 2022 + ((MonthOf(w) - 1) \div 12)

MonthOfYear(w) == ((MonthOf(w) - 1) % 12) + 1

\* strftime("%Y%m%d%H00") of a wall-clock reading
strftime_hour(w) ==
    four_digits(YearOf(w)) \o two_digits(MonthOfYear(w))
        \o two_digits(DayOfMonth(w)) \o two_digits(Hour(w)) \o <<"0", "0">>

\* the wall-clock reading a timestamp shows
WallOf(dtm) == IF dtm.tz = "None" THEN dtm.utc ELSE Wall(dtm.tz, dtm.utc)

\* if dtm.tzinfo is not None and dtm.tzinfo != pytz.UTC:
\*     dtm = dtm.tz_convert("UTC")
as_utc(dtm) ==
    IF dtm.tz # "None" /\ dtm.tz # "UTC" THEN tz_convert(dtm, "UTC") ELSE dtm

\* dtm.round(freq="h") of a naive timestamp or one in UTC
round_h(dtm) == [dtm EXCEPT !.utc = round_hour(@)]

\* EntsoeRawClient._datetime_to_str
datetime_to_str(dtm) == strftime_hour(WallOf(round_h(as_utc(dtm))))

\* the phrases _base_request looks for in the text element of an error response
NoMatchPhrase == "No matching data found"

DependencyPhrase == "check you request against dependency tables"

PsrTypePhrase == "is not valid for this area"

AmountPhrase == "amount of requested data exceeds allowed limit"

OffsetPhrase ==
    "requested data to be gathered via the offset parameter exceeds the allowed limit"

\* An error text is [has, words]: the phrases it contains and the number of
\* pieces error_text.split(" ") gives.

\* error_text.split(" ")[-n] raises IndexError: the text has fewer than n
\* pieces
index_fails(error_text, n) == error_text.words < n

\* the branch of the amount phrase: split(" ")[-2] and [-5], then
\* PaginationError
amount_branch(error_text) ==
    IF index_fails(error_text, 2) \/ index_fails(error_text, 5)
    THEN "IndexError" ELSE "PaginationError"

\* the branch of the offset phrase: split(" ")[-9] and [-30], then
\* PaginationError
offset_branch(error_text) ==
    IF index_fails(error_text, 9) \/ index_fails(error_text, 30)
    THEN "IndexError" ELSE "PaginationError"

\* the if / elif chain over the error text: the exception raised, or
\* "HTTPError" when no branch is taken and the original error is raised
error_chain(error_text) ==
    IF NoMatchPhrase \in error_text.has THEN "NoMatchingDataError"
    ELSE IF DependencyPhrase \in error_text.has THEN "InvalidBusinessParameterError"
    ELSE IF PsrTypePhrase \in error_text.has THEN "InvalidPSRTypeError"
    ELSE IF AmountPhrase \in error_text.has THEN amount_branch(error_text)
    ELSE IF OffsetPhrase \in error_text.has THEN offset_branch(error_text)
    ELSE "HTTPError"

\* the except branch of _base_request: the first text element of the response
\* decides, and without text element the HTTPError is raised again
on_http_error(response) ==
    [ok |-> FALSE,
     exc |-> IF Len(response.texts) > 0 THEN error_chain(response.texts[1])
             ELSE "HTTPError"]

\* the content type test of the else branch, taking every XML content type
is_xml_prefix(content_type) ==
    content_type \in {"application/xml", "application/xml; charset=UTF-8"}

\* response.headers.get("content-type", "") == "application/xml"
is_xml(content_type) == content_type = "application/xml"

\* the else branch of _base_request: NoMatchingDataError for an XML body with
\* the phrase, else the response itself
on_success(response) ==
    IF is_xml(response.content_type) /\ response.no_match
    THEN [ok |-> FALSE, exc |-> "NoMatchingDataError"]
    ELSE [ok |-> TRUE, response |-> response]

\* _base_request once the session has answered: raise_for_status() decides
\* between the two branches
base_request(response) ==
    IF response.error THEN on_http_error(response) ELSE on_success(response)

\* check_resolution that accepts every resolution
check_resolution_never(resolution) == [ok |-> TRUE]

\* if resolution not in ["60min", "30min", "15min"]: raise InvalidParameterError
check_resolution(resolution) ==
    IF resolution \notin {"60min", "30min", "15min"}
    THEN [ok |-> FALSE, exc |-> "InvalidParameterError"]
    ELSE [ok |-> TRUE]

\* if process_type not in ["A51", "A47"]: raise ValueError
check_process_type(process_type) ==
    IF process_type \notin {"A51", "A47"}
    THEN [ok |-> FALSE, exc |-> "ValueError"]
    ELSE [ok |-> TRUE]

\* the check a query makes of its parameter before anything else
check_parameter(a) ==
    IF a.op = "query_day_ahead_prices" THEN check_resolution(a.parameter)
    ELSE check_process_type(a.parameter)

\* a timestamp moved by a number of minutes: dtm + pd.Timedelta
shifted(dtm, minutes) == [dtm EXCEPT !.utc = @ + minutes]

\* the window a query hands to _base_request: query_day_ahead_prices of the
\* pandas client widens it by a day on each side, the raw queries pass it on
request_window(a) ==
    IF a.op = "query_day_ahead_prices"
    THEN <<shifted(a.start, -1440), shifted(a.end, 1440)>>
    ELSE <<a.start, a.end>>

\* the parameters of the GET request _base_request sends: periodStart and
\* periodEnd, and the document type of the query
request_params(op, start, end) ==
    [documentType |-> CASE op = "query_day_ahead_prices" -> "A44"
                        [] op = "query_aggregated_bids" -> "A24"
                        [] op = "query_procured_balancing_capacity" -> "A15"
                        [] OTHER -> "",
     periodStart |-> datetime_to_str(start),
     periodEnd |-> datetime_to_str(end)]

\* the area lookups on the way from the query to _base_request: the raw
\* query_day_ahead_prices, which the pandas client calls, looks the area up
\* again
raw_lookups(op) == IF op = "query_day_ahead_prices" THEN 1 ELSE 0

\* what a query makes of the outcome of _base_request: an exception goes
\* through; the raw queries return response.text or response.content, and
\* query_day_ahead_prices parses, converts and truncates
query_result(a, outcome) ==
    IF ~outcome.ok THEN outcome
    ELSE IF a.op = "query_day_ahead_prices"
    THEN query_day_ahead_prices([ok |-> TRUE, text |-> outcome.response.body],
                                "Europe/Brussels", a.start.utc, a.end.utc,
                                a.parameter)
    ELSE [ok |-> TRUE, text |-> outcome.response.body]

\* the instants _datetime_to_str is studied at: around the end of a year, the
\* end of February in a leap year, and the night the clocks go forward
StampInstants ==
    { TS(ymd[1], ymd[2], ymd[3], h, mi) :
        ymd \in { <<2022, 12, 31>>, <<2024, 2, 28>>, <<2023, 3, 26>> },
        h \in {0, 1, 22, 23}, mi \in {0, 1, 29, 30, 31, 59} }

\* the timestamps: naive, in UTC, or in Europe/Brussels
Stamps ==
    { [utc |-> u, tz |-> tz] :
        u \in StampInstants, tz \in {"None", "UTC", "Europe/Brussels"} }

\* an hourly period of two readings on 2022-01-03
LaterPeriod ==
    [HourlyPeriod EXCEPT !.start = TS(2022, 1, 3, 0, 0),
                         !.end = TS(2022, 1, 3, 2, 0)]

\* the bodies of a response: empty, or a document with one timeseries
Bodies ==
    { [empty |-> TRUE, timeseries |-> <<>>],
      [empty |-> FALSE,
       timeseries |-> << [HourlySeries EXCEPT !.periods = <<LaterPeriod>>] >>] }

\* the phrases of the error texts
Phrases ==
    { NoMatchPhrase, DependencyPhrase, PsrTypePhrase, AmountPhrase, OffsetPhrase }

\* the error texts: with at most two of the phrases, of twenty or of forty
\* pieces
ErrorTexts ==
    { [has |-> h, words |-> w] :
        h \in { x \in SUBSET Phrases : Cardinality(x) <= 2 }, w \in {20, 40} }

\* the responses with an error status: without text element, with one, or
\* with a second one that has the no-data phrase
ErrorResponses ==
    { [error |-> TRUE, texts |-> ts, content_type |-> "application/xml",
       no_match |-> \E k \in 1..Len(ts) : NoMatchPhrase \in ts[k].has,
       body |-> [empty |-> TRUE, timeseries |-> <<>>]] :
      ts \in { <<>> } \cup { <<t>> : t \in ErrorTexts }
              \cup { <<t, [has |-> {NoMatchPhrase}, words |-> 20]>> :
                       t \in ErrorTexts } }

\* the content-type headers: none (read as ""), XML, XML with a charset, a
\* ZIP archive
ContentTypes ==
    { "", "application/xml", "application/xml; charset=UTF-8", "application/zip" }

\* the responses with a success status
SuccessResponses ==
    { [error |-> FALSE, texts |-> <<>>, content_type |-> c, no_match |-> n,
       body |-> b] :
      c \in ContentTypes, n \in BOOLEAN, b \in Bodies }

HttpResponses == ErrorResponses \cup SuccessResponses

\* the windows of the queries
QueryWindows ==
    { <<[utc |-> TS(2022, 1, 3, 0, 0), tz |-> "UTC"],
        [utc |-> TS(2022, 1, 3, 1, 0), tz |-> "UTC"]>>,
      <<[utc |-> TS(2022, 1, 3, 0, 45), tz |-> "Europe/Brussels"],
        [utc |-> TS(2022, 1, 3, 3, 0), tz |-> "Europe/Brussels"]>> }

\* the queries with a parameter that is checked, and the values of it
CheckedQueries ==
    { [op |-> "query_day_ahead_prices", parameter |-> r, start |-> w[1], end |-> w[2]] :
        r \in {"60min", "15min", "5min", "1h"}, w \in QueryWindows }
    \cup { [op |-> o, parameter |-> t, start |-> w[1], end |-> w[2]] :
             o \in {"query_aggregated_bids", "query_procured_balancing_capacity"},
             t \in {"A51", "A47", "A46", ""}, w \in QueryWindows }

\* In this specification ret holds, while a query runs, what it did so far:
\* the number of area lookups and the requests sent; the outcome is added
\* when the call is done.
Started == [lookups |-> 0, sent |-> <<>>]

\* ret with the fields of an outcome
WithOutcome(sofar, outcome) ==
    [f \in DOMAIN sofar \cup DOMAIN outcome |->
        IF f \in DOMAIN outcome THEN outcome[f] ELSE sofar[f]]

\* EntsoeRawClient._datetime_to_str
DatetimeToStr ==
    /\ pc = "idle"
    /\ \E dtm \in Stamps :
         /\ args' = [op |-> "_datetime_to_str", dtm |-> dtm]
         /\ ret' = [ok |-> TRUE, str |-> datetime_to_str(dtm)]
    /\ pc' = "done"
    /\ UNCHANGED RESOLUTIONS

\* EntsoeRawClient._base_request, with the answer of the session
BaseRequest ==
    /\ pc = "idle"
    /\ \E w \in QueryWindows, response \in HttpResponses :
         /\ args' = [op |-> "_base_request", start |-> w[1], end |-> w[2]]
         /\ ret' = WithOutcome([lookups |-> 0,
                                sent |-> <<request_params("_base_request",
                                                          w[1], w[2])>>,
                                answer |-> response],
                               base_request(response))
    /\ pc' = "done"
    /\ UNCHANGED RESOLUTIONS

\* a query with a checked parameter is called
CallQuery ==
    /\ pc = "idle"
    /\ \E call \in CheckedQueries : args' = call
    /\ ret' = Started
    /\ pc' = "check"
    /\ UNCHANGED RESOLUTIONS

\* the query checks its parameter: it raises, or goes on to the area lookup
CheckParameter ==
    /\ pc = "check"
    /\ \E checked \in { check_parameter(args) } :
         IF checked.ok
         THEN pc' = "lookup" /\ UNCHANGED ret
         ELSE pc' = "done" /\ ret' = WithOutcome(ret, checked)
    /\ UNCHANGED <<RESOLUTIONS, args>>

\* area = lookup_area(country_code)
LookupArea ==
    /\ pc = "lookup"
    /\ ret' = [ret EXCEPT !.lookups = @ + 1]
    /\ pc' = "request"
    /\ UNCHANGED <<RESOLUTIONS, args>>

\* the query calls _base_request, the session answers, and the query returns
\* or raises
SendRequest ==
    /\ pc = "request"
    /\ \E response \in HttpResponses :
         ret' = WithOutcome(
                    [lookups |-> ret.lookups + raw_lookups(args.op),
                     sent |-> Append(ret.sent,
                                     request_params(args.op,
                                                    request_window(args)[1],
                                                    request_window(args)[2])),
                     answer |-> response],
                    query_result(args, base_request(response)))
    /\ pc' = "done"
    /\ UNCHANGED <<RESOLUTIONS, args>>

NextRequest ==
    \/ DatetimeToStr
    \/ BaseRequest
    \/ CallQuery
    \/ CheckParameter
    \/ LookupArea
    \/ SendRequest
    \/ Return

SpecRequest == Idle /\ [][NextRequest]_vars

\* _datetime_to_str has returned
StampDone == pc = "done" /\ args.op = "_datetime_to_str"

\* the number a sequence of digit characters denotes
NumberOf(str, from, to) == digits_value(SubSeq(str, from, to))

\* the instant that a string YYYYMMDDhhmm names, read as UTC
ReadStamp(str) ==
    TS(NumberOf(str, 1, 4), NumberOf(str, 5, 6), NumberOf(str, 7, 8),
       NumberOf(str, 9, 10), NumberOf(str, 11, 12))

\* C23: _datetime_to_str returns twelve digits YYYYMMDDhh00 that name, in UTC,
\* a whole hour no more than thirty minutes from the instant of the timestamp
\* (from its wall-clock reading taken as UTC when it is naive); from 23:30 UTC
\* on this is hour 00 of the next day.
C23_StampIsUtcHourRounded ==
    StampDone =>
        /\ Len(ret.str) = 12
        /\ \A k \in 1..12 : ret.str[k] \in DOMAIN DigitValue
        /\ ret.str[11] = "0" /\ ret.str[12] = "0"
        /\ \A r \in { ReadStamp(ret.str) } :
              /\ r % 60 = 0
              /\ r - args.dtm.utc <= 30
              /\ args.dtm.utc - r <= 30
              /\ args.dtm.utc % 1440 >= (23 * 60) + 30
                    => r = ((args.dtm.utc \div 1440) + 1) * 1440

\* C23 witness: 2023-01-01T00:30 in Europe/Brussels, which is 23:30 UTC of
\* the last day of 2022, gave 202301010000
C23_Witness ==
    /\ StampDone
    /\ args.dtm = [utc |-> TS(2022, 12, 31, 23, 30), tz |-> "Europe/Brussels"]
    /\ ret.str = <<"2", "0", "2", "3", "0", "1", "0", "1", "0", "0", "0", "0">>

\* a query with a checked parameter is running or done
QueryCalled ==
    args.op \in { "query_day_ahead_prices", "query_aggregated_bids",
                  "query_procured_balancing_capacity" }

\* the parameter of the query is not one the query accepts
InvalidParameter ==
    IF args.op = "query_day_ahead_prices"
    THEN args.parameter # "60min" /\ args.parameter # "30min"
            /\ args.parameter # "15min"
    ELSE args.parameter # "A51" /\ args.parameter # "A47"

\* C24: a query called with a parameter it does not accept (a resolution other
\* than 60min, 30min, 15min for query_day_ahead_prices, a process type other
\* than A51, A47 for query_aggregated_bids and
\* query_procured_balancing_capacity) never looks an area up and never sends a
\* request, and ends with InvalidParameterError, respectively ValueError.
C24_InvalidParameterSendsNothing ==
    (QueryCalled /\ InvalidParameter) =>
        /\ pc \in {"check", "done"}
        /\ ret.lookups = 0
        /\ ret.sent = <<>>
        /\ pc = "done" =>
              /\ ~ret.ok
              /\ ret.exc = IF args.op = "query_day_ahead_prices"
                            THEN "InvalidParameterError" ELSE "ValueError"

\* C24 witness: query_day_ahead_prices for the resolution 5min has raised
\* InvalidParameterError without a lookup and without a request
C24_Witness ==
    /\ pc = "done"
    /\ args.op = "query_day_ahead_prices"
    /\ args.parameter = "5min"
    /\ ret.exc = "InvalidParameterError"
    /\ ret.lookups = 0
    /\ ret.sent = <<>>

\* _base_request has ended
RequestEnded == pc = "done" /\ args.op = "_base_request"

\* the exception the claimed order of phrases gives for an error text
ClaimedError(error_text) ==
    IF NoMatchPhrase \in error_text.has THEN "NoMatchingDataError"
    ELSE IF DependencyPhrase \in error_text.has THEN "InvalidBusinessParameterError"
    ELSE IF PsrTypePhrase \in error_text.has THEN "InvalidPSRTypeError"
    ELSE IF AmountPhrase \in error_text.has \/ OffsetPhrase \in error_text.has
    THEN "PaginationError"
    ELSE "HTTPError"

\* C29: for a response with an error status, _base_request raises the
\* exception of the first phrase, in the claimed order, that the first text
\* element contains (PaginationError for either limit phrase), raises the
\* HTTPError again when there is no text element or no phrase, and returns no
\* response.
C29_ErrorPhraseDecidesException ==
    (RequestEnded /\ ret.answer.error) =>
        /\ ~ret.ok
        /\ ret.exc = IF ret.answer.texts = <<>> THEN "HTTPError"
                      ELSE ClaimedError(ret.answer.texts[1])

\* C30: for a response with a success status, _base_request raises
\* NoMatchingDataError exactly when the content type is "application/xml" and
\* the body has the no-data phrase; in every other case it returns the
\* response as the session gave it.
C30_NoDataOnlyForPlainXml ==
    (RequestEnded /\ ~ret.answer.error) =>
        IF ret.answer.content_type = "application/xml" /\ ret.answer.no_match
        THEN ~ret.ok /\ ret.exc = "NoMatchingDataError"
        ELSE ret.ok /\ ret.response = ret.answer

\* C30 witness: a response of content type "application/xml; charset=UTF-8"
\* whose body has the no-data phrase was returned
C30_Witness ==
    /\ RequestEnded
    /\ ~ret.answer.error
    /\ ret.answer.content_type = "application/xml; charset=UTF-8"
    /\ ret.answer.no_match
    /\ ret.ok
    /\ ret.response = ret.answer

\* ------------------------------------- specification: cross-border flows of all borders

\* most neighbours of the area
MaxNeighbours == 2

\* A flow series is a sequence of rows [ts, value] in ascending order of ts;
\* the table of all borders has rows [ts, cells, sum], where cells maps each
\* column to <<v>> for the value v and to <<>> for NaN.

\* EntsoePandasClient.query_crossborder_flows, given what the raw query and
\* parse_crossborder_flows gave: the series truncated to the window, or the
\* exception
query_crossborder_flows(flow, start, end) ==
    IF ~flow.ok THEN flow
    ELSE [ok |-> TRUE, rows |-> truncate(flow.rows, start, end)]

\* the pair of areas asked for the i-th neighbour: from the area to the
\* neighbour for exports, from the neighbour to the area for imports
asked_pair(neighbour, export) ==
    IF export THEN [from |-> "area", to |-> neighbour]
    ELSE [from |-> neighbour, to |-> "area"]

RECURSIVE gather_imports(_, _, _, _, _, _, _)
\* the loop over the neighbours from the i-th on: a neighbour whose query
\* raises NoMatchingDataError is passed over, any other exception ends the
\* call, and a series is named after the neighbour and appended to imports;
\* asked lists the pairs of areas queried
gather_imports(neighbours, flows, start, end, export, i, sofar) ==
    IF i > Len(neighbours) THEN sofar
    ELSE LET im == query_crossborder_flows(flows[neighbours[i]], start, end)
             asked == Append(sofar.asked, asked_pair(neighbours[i], export))
         IN IF im.ok
            THEN gather_imports(neighbours, flows, start, end, export, i + 1,
                     [ok |-> TRUE, asked |-> asked,
                      imports |-> Append(sofar.imports,
                                         [name |-> neighbours[i], rows |-> im.rows])])
            ELSE IF im.exc = "NoMatchingDataError"
            THEN gather_imports(neighbours, flows, start, end, export, i + 1,
                     [ok |-> TRUE, asked |-> asked, imports |-> sofar.imports])
            ELSE [ok |-> FALSE, asked |-> asked, exc |-> im.exc]

\* the timestamps of the rows of the imports
index_union(imports) ==
    UNION { { imports[k].rows[j].ts : j \in 1..Len(imports[k].rows) } :
            k \in 1..Len(imports) }

\* the cell of a series at a timestamp: its value there, or NaN
cell_at(rows, ts) ==
    IF \E j \in 1..Len(rows) : rows[j].ts = ts
    THEN << rows[CHOOSE j \in 1..Len(rows) : rows[j].ts = ts].value >>
    ELSE <<>>

\* pd.concat(imports, axis=1, sort=True): one column per series, one row per
\* timestamp of any of them, in ascending order
concat_columns(imports) ==
    LET idx == sorted_keys(index_union(imports)) IN
    [columns |-> { imports[k].name : k \in 1..Len(imports) },
     rows |-> [i \in 1..Len(idx) |->
                 [ts |-> idx[i],
                  cells |-> [c \in { imports[k].name : k \in 1..Len(imports) } |->
                               cell_at(imports[CHOOSE k \in 1..Len(imports) :
                                                   imports[k].name = c].rows,
                                       idx[i])]]]]

\* df.loc[:, (df != 0).any(axis=0)]: the columns with a cell that is not 0
\* (NaN is not 0)
drop_zero_columns(df) ==
    LET keep == { c \in df.columns :
                    \E i \in 1..Len(df.rows) : df.rows[i].cells[c] # <<0>> }
    IN [columns |-> keep,
        rows |-> [i \in 1..Len(df.rows) |->
                    [ts |-> df.rows[i].ts,
                     cells |-> [c \in keep |-> df.rows[i].cells[c]]]]]

\* df.truncate(before=start, after=end)
truncate_frame(df, start, end) ==
    [df EXCEPT !.rows = truncate(@, start, end)]

RECURSIVE sum_cells(_, _)
\* the sum of the cells of the columns cs, NaN left out
sum_cells(cells, cs) ==
    IF cs = {} THEN 0
    ELSE LET c == CHOOSE x \in cs : TRUE IN
         (IF cells[c] = <<>> THEN 0 ELSE cells[c][1]) + sum_cells(cells, cs \ {c})

\* df["sum"] = df.sum(axis=1)
with_sum(df) ==
    [columns |-> df.columns,
     rows |-> [i \in 1..Len(df.rows) |->
                 [ts |-> df.rows[i].ts, cells |-> df.rows[i].cells,
                  sum |-> << sum_cells(df.rows[i].cells, df.columns) >>]]]

\* the first cell that is not NaN among the cells, in row order
first_valid(cells) ==
    IF \A i \in 1..Len(cells) : cells[i] = <<>> THEN <<>>
    ELSE cells[CHOOSE i \in 1..Len(cells) :
                   /\ cells[i] # <<>>
                   /\ \A j \in 1..(i - 1) : cells[j] = <<>>]

\* the rows of a table within the hour that begins at h
rows_of_hour(rows, h) ==
    LET within(r) == ~TsLess(r.ts, <<h, 0>>) /\ TsLess(r.ts, <<h + 60, 0>>)
    IN SelectSeq(rows, within)

\* the hour a timestamp falls in, as resample("h") bins it
hour_of(ts) == (ts[1] \div 60) * 60

\* df.resample("h").first(): one row for every hour from the first row to
\* the last, each column holding its first cell of the hour that is not NaN
resample_first(df) ==
    IF df.rows = <<>> THEN df
    ELSE LET h0 == hour_of(df.rows[1].ts)
             h1 == hour_of(df.rows[Len(df.rows)].ts)
         IN [columns |-> df.columns,
             rows |-> [i \in 1..(((h1 - h0) \div 60) + 1) |->
                 LET rs == rows_of_hour(df.rows, h0 + ((i - 1) * 60)) IN
                 [ts |-> <<h0 + ((i - 1) * 60), 0>>,
                  cells |-> [c \in df.columns |->
                               first_valid([k \in 1..Len(rs) |-> rs[k].cells[c]])],
                  sum |-> first_valid([k \in 1..Len(rs) |-> rs[k].sum])]]]

\* the table of the imports: pd.concat raises ValueError when there is none
borders_frame(imports, start, end, per_hour) ==
    IF imports = <<>> THEN [ok |-> FALSE, exc |-> "ValueError"]
    ELSE LET df == with_sum(truncate_frame(drop_zero_columns(concat_columns(imports)),
                                           start, end))
         IN [ok |-> TRUE, df |-> IF per_hour THEN resample_first(df) ELSE df]

\* EntsoePandasClient.query_physical_crossborder_allborders
query_physical_crossborder_allborders(neighbours, flows, start, end, export, per_hour) ==
    LET g == gather_imports(neighbours, flows, start, end, export, 1,
                            [ok |-> TRUE, asked |-> <<>>, imports |-> <<>>])
    IN IF ~g.ok THEN g
       ELSE LET f == borders_frame(g.imports, start, end, per_hour) IN
            IF f.ok THEN [ok |-> TRUE, asked |-> g.asked, df |-> f.df]
            ELSE [ok |-> FALSE, asked |-> g.asked, exc |-> f.exc]

\* the areas that can be neighbours
NeighbourNames == <<"BE", "DE_LU", "FR", "GB">>

\* the neighbours of the area: the first names, at least one
NeighbourLists ==
    { SubSeq(NeighbourNames, 1, n) : n \in 1..MaxNeighbours }

\* the instants a flow has a point at, and the flows in MW
FlowInstants == {0, 30, 60}
FlowValues == {0, 1, 3}

\* the series parse_crossborder_flows can give: any values at any of the
\* instants, in ascending order
FlowSeries ==
    UNION { { [i \in 1..Len(sorted_keys({<<m, 0>> : m \in I})) |->
                 [ts |-> sorted_keys({<<m, 0>> : m \in I})[i], value |-> v[i]]] :
              v \in [1..Cardinality(I) -> FlowValues] } :
            I \in SUBSET FlowInstants }

\* what the query of one border ends with
FlowOutcomes ==
    { [ok |-> FALSE, exc |-> "NoMatchingDataError"],
      [ok |-> FALSE, exc |-> "HTTPError"] }
    \cup { [ok |-> TRUE, rows |-> rows] : rows \in FlowSeries }

\* the windows asked for
BorderWindows == { <<0, 60>>, <<30, 60>> }

QueryPhysicalCrossborderAllborders ==
    /\ pc = "idle"
    /\ \E neighbours \in NeighbourLists, w \in BorderWindows,
          export \in BOOLEAN, per_hour \in BOOLEAN :
         \E flows \in [{ neighbours[i] : i \in 1..Len(neighbours) } -> FlowOutcomes] :
           /\ args' = [op |-> "query_physical_crossborder_allborders",
                       neighbours |-> neighbours, flows |-> flows,
                       start |-> w[1], end |-> w[2],
                       export |-> export, per_hour |-> per_hour]
           /\ ret' = query_physical_crossborder_allborders(neighbours, flows,
                          w[1], w[2], export, per_hour)
    /\ pc' = "done"
    /\ UNCHANGED RESOLUTIONS

NextBorders ==
    \/ QueryPhysicalCrossborderAllborders
    \/ Return

SpecBorders == Idle /\ [][NextBorders]_vars

\* the call of query_physical_crossborder_allborders has ended
BordersEnded ==
    pc = "done" /\ args.op = "query_physical_crossborder_allborders"

\* the points the query of a neighbour gave within the hour that begins at h
PointsOfHour(neighbour, h) ==
    rows_of_hour(query_crossborder_flows(args.flows[neighbour],
                                         args.start, args.end).rows, h)

RECURSIVE SumValues(_)
SumValues(rows) ==
    IF rows = <<>> THEN 0 ELSE Head(rows).value + SumValues(Tail(rows))

\* C21: with per_hour the returned rows are hourly and each neighbour's value
\* in a row is the mean of the neighbour's data points in that hour: the value
\* times the number of points is the sum of the points.
C21_PerHourIsMean ==
    (BordersEnded /\ args.per_hour /\ ret.ok) =>
        \A k \in 1..Len(ret.df.rows) :
            /\ ret.df.rows[k].ts[1] % 60 = 0 /\ ret.df.rows[k].ts[2] = 0
            /\ \A c \in ret.df.columns :
                 \A pts \in { PointsOfHour(c, ret.df.rows[k].ts[1]) } :
                    pts # <<>> =>
                       /\ ret.df.rows[k].cells[c] # <<>>
                       /\ ret.df.rows[k].cells[c][1] * Len(pts) = SumValues(pts)

\* every neighbour was queried in the requested direction
AskedEveryNeighbour ==
    /\ Len(ret.asked) = Len(args.neighbours)
    /\ \A i \in 1..Len(args.neighbours) :
         ret.asked[i] = IF args.export
                        THEN [from |-> "area", to |-> args.neighbours[i]]
                        ELSE [from |-> args.neighbours[i], to |-> "area"]

\* no query of a neighbour ended with another exception than
\* NoMatchingDataError
OnlyNoDataRaised ==
    \A i \in 1..Len(args.neighbours) :
        \/ args.flows[args.neighbours[i]].ok
        \/ args.flows[args.neighbours[i]].exc = "NoMatchingDataError"

\* no returned column is zero in every row
NoZeroColumn ==
    \A c \in ret.df.columns :
        ret.df.rows # <<>> =>
            \E k \in 1..Len(ret.df.rows) : ret.df.rows[k].cells[c] # <<0>>

\* in every returned row, within the window, sum is the sum of the row's
\* neighbour columns
SumOfRowColumns ==
    \A k \in 1..Len(ret.df.rows) :
        /\ args.start <= ret.df.rows[k].ts[1]
        /\ ret.df.rows[k].ts[1] <= args.end
        /\ ret.df.rows[k].sum = << sum_cells(ret.df.rows[k].cells, ret.df.columns) >>

\* C22: every neighbour is queried in the requested direction; a neighbour
\* whose query raises NoMatchingDataError is skipped and the query still
\* returns; no returned column is zero in every row; and in every returned
\* row sum is the sum of the row's neighbour columns within [start, end].
C22_NeighboursSkippedZeroDroppedSummed ==
    (BordersEnded /\ OnlyNoDataRaised) =>
        /\ AskedEveryNeighbour
        /\ ret.ok
        /\ NoZeroColumn
        /\ SumOfRowColumns

====
